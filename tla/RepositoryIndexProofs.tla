------------------------ MODULE RepositoryIndexProofs ------------------------
(***************************************************************************)
(* What holds of the repository index for any number of files, callers,    *)
(* edits and crashes and for any size of the batches.                      *)
(***************************************************************************)
EXTENDS RepositoryIndex, WellFoundedInduction, TLAPS

\* Where a caller works on the job of the state it has probed.
Middle == {"next", "read", "save", "probe", "publish", "fail"}

Places == {"idle", "begin", "promote"} \cup Middle

Callers == [at : Places, state : States, prev : States \cup {None},
            todo : SUBSET Files, batch : States]

\* What is true of a caller's record, given the jobs.
Fits(r) ==
    /\ r \in Callers
    /\ r.prev \in DOMAIN jobs \cup {None}
    /\ Candidates(r.batch) \subseteq Candidates(r.state)
    /\ r.todo \subseteq Candidates(r.state)
    /\ r.at \in {"next", "read"} => r.todo # {}
    /\ r.at \notin {"idle", "begin"} => r.state \in DOMAIN jobs
    /\ r.at \in {"probe", "publish"} => Candidates(r.state) \subseteq Processed(r.state)

Statuses == {"running", "failed", "completed"}

JobsTyped ==
    /\ DOMAIN jobs \subseteq States
    /\ jobs \in [DOMAIN jobs -> [status : Statuses, rows : States]]
    /\ \A s \in DOMAIN jobs : Processed(s) \subseteq Candidates(s)

\* IndexTypeOK with the types it leaves out.
Types ==
    /\ tree \in States
    /\ JobsTyped
    /\ current \in DOMAIN jobs \cup {None}
    /\ run \in [Runners -> Callers]
    /\ \A p \in Runners : Fits(run[p])
    /\ shared \subseteq DOMAIN jobs
    /\ events \in 0 .. MaxEvents

--------------------------------------------------------------------------------
(* Types. *)

LEMMA VersionsAreNaturals == Versions \subseteq Nat /\ Absent \in Versions /\ NoFiles \in States
BY IndexAssumption DEF Versions, Absent, NoFiles, States

\* The next file is one of those left to do.
LEMMA FirstIsThere ==
    ASSUME NEW todo \in SUBSET Files, todo # {}
    PROVE  First(todo) \in todo
<1>1. \E f \in todo : \A g \in todo : ~(<<g, f>> \in OpToRel(<, Nat))
  BY IndexAssumption, NatLessThanWellFounded, WFMin
<1>2. PICK f \in todo : \A g \in todo : ~(g < f)
  BY <1>1, IndexAssumption DEF OpToRel
<1>3. \E h \in todo : \A g \in todo : h <= g
  BY <1>2, IndexAssumption
<1> QED BY <1>3 DEF First

LEMMA TypesSuffice == Types => IndexTypeOK
BY DEF Types, JobsTyped, Statuses, Fits, IndexTypeOK

LEMMA InitTypes == IndexInit => Types
<1> SUFFICES ASSUME IndexInit PROVE Types
  OBVIOUS
<1>1. tree \in States
  BY IndexAssumption DEF IndexInit, States, Versions, Absent
<1>2. DOMAIN jobs = {} /\ JobsTyped
  BY DEF IndexInit, JobsTyped
<1>3. Fits(Idle)
  BY VersionsAreNaturals DEF Idle, Callers, Places, Fits
<1>4. run \in [Runners -> Callers] /\ \A p \in Runners : run[p] = Idle
  BY <1>3 DEF IndexInit, Fits
<1> QED BY <1>1, <1>2, <1>3, <1>4, IndexAssumption DEF IndexInit, Types

\* A caller's step, as far as types go.
LEMMA CallerMoves ==
    ASSUME Types, NEW p \in Runners, NEW r, run' = [run EXCEPT ![p] = r],
           JobsTyped', Fits(r)',
           DOMAIN jobs \subseteq DOMAIN jobs',
           \A s \in DOMAIN jobs : Processed(s) \subseteq Processed(s)',
           current' \in DOMAIN jobs' \cup {None}, shared' \subseteq DOMAIN jobs',
           UNCHANGED <<tree, events>>
    PROVE  Types'
<1>1. r \in Callers
  BY DEF Fits
<1>2. run' \in [Runners -> Callers] /\ \A q \in Runners : run'[q] = IF q = p THEN r ELSE run[q]
  BY <1>1 DEF Types
<1>3. ASSUME NEW q \in Runners, q # p PROVE Fits(run[q])'
  <2>1. run'[q] = run[q] /\ Fits(run[q])
    BY <1>2, <1>3 DEF Types
  <2> QED BY <2>1 DEF Fits
<1>4. Fits(run[p])'
  BY <1>2 DEF Fits
<1> QED BY <1>2, <1>3, <1>4 DEF Types

LEMMA CallerMovesAlone ==
    ASSUME Types, NEW p \in Runners, NEW r, run' = [run EXCEPT ![p] = r],
           Fits(r), current' \in DOMAIN jobs \cup {None},
           UNCHANGED <<tree, jobs, shared, events>>
    PROVE  Types'
<1>1. JobsTyped' /\ Fits(r)' /\ \A s \in DOMAIN jobs : Processed(s) \subseteq Processed(s)'
  BY DEF Types, JobsTyped, Fits, Processed
<1> QED BY <1>1, CallerMoves DEF Types

LEMMA ProbeTypes ==
    ASSUME Types, NEW p \in Runners, Probe(p)
    PROVE  Types'
<1> DEFINE r == [Idle EXCEPT !.at = "begin", !.state = tree, !.prev = current]
<1>1. Fits(r)
  BY VersionsAreNaturals DEF Types, Fits, Idle, Callers, Places, Candidates, NoFiles, JobsTyped
<1>2. run' = [run EXCEPT ![p] = r]
  BY DEF Probe
<1> QED BY <1>1, <1>2, CallerMovesAlone DEF Probe, Types

LEMMA GoToTypes ==
    ASSUME Types, NEW p \in Runners, NEW at, GoTo(p, at),
           Fits([run[p] EXCEPT !.at = at]), UNCHANGED <<tree, jobs, current, shared, events>>
    PROVE  Types'
BY CallerMovesAlone DEF GoTo, Types

LEMMA DropTypes ==
    ASSUME Types, NEW p \in Runners, Drop(p), current' \in DOMAIN jobs \cup {None},
           UNCHANGED <<tree, jobs, shared, events>>
    PROVE  Types'
<1>1. Fits(Idle)
  BY VersionsAreNaturals DEF Types, Fits, Idle, Callers, Places, Candidates, NoFiles
<1> QED BY <1>1, CallerMovesAlone DEF Drop

\* The steps that only move the caller on.
LEMMA MoveOnTypes ==
    ASSUME Types, NEW p \in Runners,
           BeginCompleted(p) \/ Stat(p) \/ SaveRefused(p) \/ ProbeAgain(p)
    PROVE  Types'
<1>1. Fits(run[p])
  BY DEF Types
<1>2. CASE BeginCompleted(p)
  BY <1>1, <1>2, GoToTypes DEF BeginCompleted, Fits, Callers, Places, Middle
<1>3. CASE Stat(p)
  BY <1>1, <1>3, GoToTypes DEF Stat, Fits, Callers, Places, Middle
<1>4. CASE SaveRefused(p)
  BY <1>1, <1>4, GoToTypes DEF SaveRefused, Fits, Callers, Places, Middle
<1>5. CASE ProbeAgain(p)
  BY <1>1, <1>5, GoToTypes DEF ProbeAgain, Fits, Callers, Places, Middle
<1> QED BY <1>2, <1>3, <1>4, <1>5

\* The file that was handled joins the batch.
LEMMA AfterFileTypes ==
    ASSUME Types, NEW p \in Runners, run[p].at \in {"next", "read"},
           NEW content \in Versions, AfterFile(p, First(run[p].todo), content),
           UNCHANGED <<tree, jobs, current, shared, events>>
    PROVE  Types'
<1> DEFINE f == First(run[p].todo)
           todo == run[p].todo \ {f}
           batch == [run[p].batch EXCEPT ![f] = content]
<1>1. PICK at \in {"save", "next"} :
         /\ at = "next" => todo # {}
         /\ run' = [run EXCEPT ![p] = [run[p] EXCEPT !.at = at, !.todo = todo, !.batch = batch]]
  BY DEF AfterFile
<1>2. Fits(run[p])
  BY DEF Types
<1>3. f \in run[p].todo /\ f \in Files /\ f \in Candidates(run[p].state)
  BY <1>2, FirstIsThere DEF Fits, Callers
<1>4. batch \in States /\ Candidates(batch) \subseteq Candidates(run[p].batch) \cup {f}
  BY <1>2, <1>3 DEF Fits, Callers, States, Candidates
<1> HIDE DEF f, batch
<1>5. Fits([run[p] EXCEPT !.at = at, !.todo = todo, !.batch = batch])
  BY <1>1, <1>2, <1>3, <1>4 DEF Fits, Callers, Places, Middle
<1> QED BY <1>1, <1>5, CallerMovesAlone DEF Types

LEMMA FileTypes ==
    ASSUME Types, NEW p \in Runners, Reuse(p) \/ Read(p)
    PROVE  Types'
<1>1. Fits(run[p])
  BY DEF Types
<1>2. CASE Reuse(p)
  <2> DEFINE f == First(run[p].todo)
  <2>1. f \in Files /\ run[p].at = "next"
    BY <1>1, <1>2, FirstIsThere DEF Fits, Callers, Reuse
  <2>2. run[p].prev \in DOMAIN jobs
    BY <1>1, <1>2 DEF Fits, Reuse
  <2>3. jobs[run[p].prev].rows[f] \in Versions
    BY <2>1, <2>2 DEF Types, JobsTyped, States
  <2> QED BY <1>2, <2>1, <2>3, AfterFileTypes DEF Reuse
<1>3. CASE Read(p) /\ tree[First(run[p].todo)] = Absent
  BY <1>1, <1>3, GoToTypes DEF Read, Fits, Callers, Places, Middle
<1>4. CASE Read(p) /\ tree[First(run[p].todo)] # Absent
  <2>1. First(run[p].todo) \in Files /\ run[p].at = "read"
    BY <1>1, <1>4, FirstIsThere DEF Fits, Callers, Read
  <2>2. tree[First(run[p].todo)] \in Versions
    BY <2>1 DEF Types, States
  <2> QED BY <1>4, <2>1, <2>2, AfterFileTypes DEF Read
<1> QED BY <1>2, <1>3, <1>4

\* The slice that begin_or_resume_job hands to its caller.
LEMMA SelectRecord ==
    ASSUME Types, NEW p \in Runners, NEW pending \in SUBSET Candidates(run[p].state),
           Select(p, pending)
    PROVE  \E at \in {"probe", "next"}, todo \in SUBSET Candidates(run[p].state) :
              /\ at = "probe" => pending = {}
              /\ at = "next" => todo # {}
              /\ run' = [run EXCEPT ![p] = [run[p] EXCEPT !.at = at, !.todo = todo]]
<1>1. Fits(run[p])
  BY DEF Types
<1>2. CASE pending = {}
  <2>1. run' = [run EXCEPT ![p] = [run[p] EXCEPT !.at = "probe", !.todo = run[p].todo]]
    BY <1>1, <1>2 DEF Select, GoTo, Fits, Callers, Types
  <2> QED BY <1>1, <1>2, <2>1 DEF Fits
<1>3. CASE pending # {}
  <2>1. PICK last \in pending :
           run' = [run EXCEPT ![p].at = "next",
                              ![p].todo = {f \in pending : f <= last}]
    BY <1>3 DEF Select
  <2> DEFINE todo == {f \in pending : f <= last}
  <2>2. last \in Nat /\ last <= last
    BY IndexAssumption DEF Candidates
  <2>3. todo \in SUBSET Candidates(run[p].state) /\ last \in todo
    BY <2>2
  <2>4. run' = [run EXCEPT ![p] = [run[p] EXCEPT !.at = "next", !.todo = todo]]
    BY <2>1 DEF Types
  <2> HIDE DEF todo
  <2> QED BY <2>3, <2>4
<1> QED BY <1>2, <1>3

LEMMA SelectTypes ==
    ASSUME Types, NEW p \in Runners, NEW s, s = run[p].state,
           NEW pending \in SUBSET Candidates(s), Select(p, pending),
           JobsTyped', DOMAIN jobs' = DOMAIN jobs \cup {s},
           \A t \in DOMAIN jobs : Processed(t)' = Processed(t),
           pending = {} => Candidates(s) \subseteq Processed(s)',
           shared' \subseteq DOMAIN jobs', UNCHANGED <<tree, current, events>>
    PROVE  Types'
<1>1. PICK at \in {"probe", "next"}, todo \in SUBSET Candidates(run[p].state) :
              /\ at = "probe" => pending = {}
              /\ at = "next" => todo # {}
              /\ run' = [run EXCEPT ![p] = [run[p] EXCEPT !.at = at, !.todo = todo]]
  BY SelectRecord
<1> DEFINE r == [run[p] EXCEPT !.at = at, !.todo = todo]
<1>2. Fits(run[p])
  BY DEF Types
<1>3. /\ r \in Callers /\ r.at = at /\ r.state = run[p].state /\ r.todo = todo
      /\ r.prev = run[p].prev /\ r.batch = run[p].batch
  BY <1>2 DEF Fits, Callers, Places, Middle, Candidates
<1> HIDE DEF r
<1>4. PICK t : t = r
  OBVIOUS
<1>5. Fits(t)'
  BY <1>1, <1>2, <1>3, <1>4 DEF Fits, Candidates
<1> QED BY <1>1, <1>4, <1>5, CallerMoves DEF Types, r

LEMMA BeginNewTypes ==
    ASSUME Types, NEW p \in Runners, BeginNew(p)
    PROVE  Types'
<1> PICK s : s = run[p].state
  OBVIOUS
<1>1. s \in States /\ s \notin DOMAIN jobs
  BY DEF BeginNew, Types, Callers
<1>2. /\ DOMAIN jobs' = DOMAIN jobs \cup {s}
      /\ \A t \in DOMAIN jobs : jobs'[t] = jobs[t]
      /\ jobs'[s] = [status |-> "running", rows |-> NoFiles]
      /\ jobs' \in [DOMAIN jobs \cup {s} -> [status : Statuses, rows : States]]
  BY <1>1, VersionsAreNaturals DEF BeginNew, Types, JobsTyped, Statuses
<1>3. Processed(s)' = {}
  BY <1>2 DEF Processed, NoFiles
<1>4. \A t \in DOMAIN jobs : Processed(t)' = Processed(t)
  BY <1>2 DEF Processed
<1>5. JobsTyped'
  BY <1>1, <1>2, <1>3, <1>4 DEF Types, JobsTyped, Candidates
<1> QED BY <1>2, <1>4, <1>5, SelectTypes DEF BeginNew, Types

LEMMA BeginResumedTypes ==
    ASSUME Types, NEW p \in Runners, BeginResumed(p)
    PROVE  Types'
<1> PICK s : s = run[p].state
  OBVIOUS
<1>1. s \in DOMAIN jobs
  BY DEF BeginResumed
<1>2. /\ DOMAIN jobs' = DOMAIN jobs
      /\ \A t \in DOMAIN jobs : jobs'[t].rows = jobs[t].rows
      /\ jobs' \in [DOMAIN jobs -> [status : Statuses, rows : States]]
  BY <1>1 DEF BeginResumed, Types, JobsTyped, Statuses
<1>4. \A t \in DOMAIN jobs : Processed(t)' = Processed(t)
  BY <1>2 DEF Processed
<1>5. JobsTyped'
  BY <1>1, <1>2, <1>4 DEF Types, JobsTyped, Candidates
<1>6. shared' \subseteq DOMAIN jobs
  BY <1>1 DEF BeginResumed, Types
<1> QED BY <1>1, <1>2, <1>4, <1>5, <1>6, SelectTypes DEF BeginResumed, Types

\* Saving a batch adds rows for candidates of the job.
LEMMA SaveJobs ==
    ASSUME Types, NEW p \in Runners, NEW s, s = run[p].state, SaveBatch(p)
    PROVE  /\ s \in DOMAIN jobs /\ JobsTyped'
           /\ DOMAIN jobs' = DOMAIN jobs
           /\ jobs'[s].rows = Merged(jobs[s].rows, run[p].batch)
           /\ \A t \in DOMAIN jobs : jobs'[t].status = jobs[t].status
           /\ \A t \in DOMAIN jobs : t # s => jobs'[t] = jobs[t]
           /\ Processed(s)' = Candidates(jobs'[s].rows)
           /\ \A t \in DOMAIN jobs : Processed(t) \subseteq Processed(t)'
<1>1. Fits(run[p]) /\ s \in DOMAIN jobs
  BY DEF Types, Fits, SaveBatch
<1>2. /\ Merged(jobs[s].rows, run[p].batch) \in States
      /\ Candidates(Merged(jobs[s].rows, run[p].batch))
            = Processed(s) \cup Candidates(run[p].batch)
  BY <1>1 DEF Merged, Fits, Callers, States, Types, JobsTyped, Candidates, Processed
<1> HIDE DEF Merged
<1>3. /\ DOMAIN jobs' = DOMAIN jobs
      /\ jobs'[s].rows = Merged(jobs[s].rows, run[p].batch)
      /\ \A t \in DOMAIN jobs : jobs'[t].status = jobs[t].status
      /\ \A t \in DOMAIN jobs : t # s => jobs'[t] = jobs[t]
      /\ jobs' \in [DOMAIN jobs -> [status : Statuses, rows : States]]
  BY <1>1, <1>2 DEF SaveBatch, Types, JobsTyped
<1>4. Processed(s)' = Candidates(jobs'[s].rows)
  BY DEF Processed, Candidates
<1>5. \A t \in DOMAIN jobs : t # s => Processed(t)' = Processed(t)
  BY <1>3 DEF Processed
<1>6. Candidates(run[p].batch) \subseteq Candidates(s)
  BY <1>1 DEF Fits
<1>7. \A t \in DOMAIN jobs : Processed(t)' \subseteq Candidates(t)
  BY <1>1, <1>2, <1>3, <1>4, <1>5, <1>6 DEF Types, JobsTyped
<1>8. JobsTyped'
  BY <1>3, <1>7 DEF JobsTyped, Types, Candidates
<1> QED BY <1>1, <1>2, <1>3, <1>4, <1>5, <1>8

LEMMA SaveBatchTypes ==
    ASSUME Types, NEW p \in Runners, SaveBatch(p)
    PROVE  Types'
<1> PICK s : s = run[p].state
  OBVIOUS
<1>1. Fits(run[p])
  BY DEF Types
<1>2. /\ s \in DOMAIN jobs /\ JobsTyped'
      /\ DOMAIN jobs' = DOMAIN jobs
      /\ jobs'[s].rows = Merged(jobs[s].rows, run[p].batch)
      /\ Processed(s)' = Candidates(jobs'[s].rows)
      /\ \A t \in DOMAIN jobs : Processed(t) \subseteq Processed(t)'
  BY SaveJobs
<1>3. PICK r : /\ run' = [run EXCEPT ![p] = r]
               /\ \/ r = [run[p] EXCEPT !.at = "next", !.batch = NoFiles] /\ run[p].todo # {}
                  \/ /\ r = [run[p] EXCEPT !.at = "probe", !.batch = NoFiles]
                     /\ Candidates(s) \subseteq Candidates(jobs'[s].rows)
                  \/ r = Idle
  BY <1>2 DEF SaveBatch, Counted, Drop
<1>4. Candidates(NoFiles) = {}
  BY DEF Candidates, NoFiles
<1>5. ASSUME r = Idle PROVE Fits(r)'
  BY <1>2, <1>4, <1>5, VersionsAreNaturals DEF Fits, Callers, Places, Idle
<1>6. ASSUME r # Idle PROVE Fits(r)'
  <2>1. /\ r \in Callers /\ r.prev = run[p].prev /\ r.state = s /\ r.batch = NoFiles
        /\ r.todo = run[p].todo
    BY <1>1, <1>3, <1>6, VersionsAreNaturals DEF Fits, Callers, Places, Middle
  <2>2. \/ r.at = "next" /\ run[p].todo # {}
        \/ r.at = "probe" /\ Candidates(s) \subseteq Processed(s)'
    BY <1>1, <1>2, <1>3, <1>6 DEF Fits, Callers
  <2> QED BY <1>1, <1>2, <1>4, <2>1, <2>2 DEF Fits, Candidates
<1>7. Fits(r)'
  BY <1>5, <1>6
<1> QED BY <1>2, <1>3, <1>7, CallerMoves DEF SaveBatch, Types

\* Only the status of the caller's job changes.
LEMMA StatusTypes ==
    ASSUME Types, NEW p \in Runners, NEW s \in DOMAIN jobs, NEW status \in Statuses,
           jobs' = [jobs EXCEPT ![s].status = status], Drop(p),
           current' \in DOMAIN jobs \cup {None}, UNCHANGED <<tree, shared, events>>
    PROVE  Types'
<1>1. /\ DOMAIN jobs' = DOMAIN jobs
      /\ \A t \in DOMAIN jobs : jobs'[t].rows = jobs[t].rows
      /\ jobs' \in [DOMAIN jobs -> [status : Statuses, rows : States]]
  BY DEF Types, JobsTyped
<1>2. \A t \in DOMAIN jobs : Processed(t)' = Processed(t)
  BY <1>1 DEF Processed
<1>3. JobsTyped'
  BY <1>1, <1>2 DEF Types, JobsTyped, Candidates
<1>4. Fits(Idle)'
  BY VersionsAreNaturals DEF Fits, Idle, Callers, Places, Candidates, NoFiles
<1> QED BY <1>1, <1>2, <1>3, <1>4, CallerMoves DEF Drop, Types

LEMMA EndTypes ==
    ASSUME Types, NEW p \in Runners,
           Promote(p) \/ PublishedAlready(p) \/ Publish(p) \/ MarkFailed(p)
    PROVE  Types'
<1>1. Fits(run[p])
  BY DEF Types
<1>2. CASE Promote(p)
  BY <1>1, <1>2, DropTypes DEF Promote, MovePointer, Fits
<1>3. CASE PublishedAlready(p)
  BY <1>3, DropTypes DEF PublishedAlready, Types
<1>4. CASE Publish(p)
  BY <1>1, <1>4, StatusTypes DEF Publish, Fits, Statuses, Types
<1>5. CASE MarkFailed(p) /\ Fails(run[p].state)
  BY <1>1, <1>5, StatusTypes DEF MarkFailed, Fits, Statuses, Types
<1>6. CASE MarkFailed(p) /\ ~Fails(run[p].state)
  BY <1>6, DropTypes DEF MarkFailed, Types
<1> QED BY <1>2, <1>3, <1>4, <1>5, <1>6

LEMMA EditTypes ==
    ASSUME Types, NEW f \in Files, Edit(f)
    PROVE  Types'
<1>1. events' \in 0 .. MaxEvents /\ events + 2 \in Versions
  BY IndexAssumption DEF Edit, Types, Versions
<1>2. tree' \in States
  BY <1>1, VersionsAreNaturals DEF Edit, Types, States
<1>3. \A p \in Runners : Fits(run[p])'
  BY DEF Edit, Types, Fits, Processed
<1>4. JobsTyped'
  BY DEF Edit, Types, JobsTyped, Processed
<1> QED BY <1>1, <1>2, <1>3, <1>4 DEF Edit, Types

LEMMA CrashTypes == Types /\ Crash => Types'
<1> SUFFICES ASSUME Types, Crash PROVE Types'
  OBVIOUS
<1>1. Fits(Idle)
  BY VersionsAreNaturals DEF Fits, Idle, Callers, Places, Candidates, NoFiles
<1>2. Fits(Idle)' /\ Idle \in Callers
  BY <1>1 DEF Crash, Fits, Processed
<1>3. run' \in [Runners -> Callers] /\ \A p \in Runners : run'[p] = Idle
  BY <1>2 DEF Crash
<1>4. JobsTyped'
  BY DEF Crash, Types, JobsTyped, Processed
<1>5. \A p \in Runners : Fits(run[p])'
  BY <1>2, <1>3 DEF Fits
<1> QED BY <1>3, <1>4, <1>5, IndexAssumption DEF Crash, Types

LEMMA DisposeTypes == Types /\ DisposeStale => Types'
<1> SUFFICES ASSUME Types, DisposeStale PROVE Types'
  OBVIOUS
<1>1. /\ DOMAIN jobs' = DOMAIN jobs
      /\ \A t \in DOMAIN jobs : jobs'[t].rows = jobs[t].rows
      /\ jobs' \in [DOMAIN jobs -> [status : Statuses, rows : States]]
  BY DEF DisposeStale, Types, JobsTyped, Statuses
<1>2. \A t \in DOMAIN jobs : Processed(t)' = Processed(t)
  BY <1>1 DEF Processed
<1>3. JobsTyped'
  BY <1>1, <1>2 DEF Types, JobsTyped, Candidates
<1>4. \A p \in Runners : Fits(run[p])'
  BY <1>1, <1>2 DEF DisposeStale, Types, Fits
<1> QED BY <1>1, <1>3, <1>4 DEF DisposeStale, Types

LEMMA NextTypes == Types /\ [IndexNext]_indexVars => Types'
<1> SUFFICES ASSUME Types, [IndexNext]_indexVars PROVE Types'
  OBVIOUS
<1>1. ASSUME NEW p \in Runners, CallerStep(p) PROVE Types'
  BY <1>1, ProbeTypes, BeginNewTypes, BeginResumedTypes, MoveOnTypes, FileTypes,
     SaveBatchTypes, EndTypes DEF CallerStep
<1>2. CASE UNCHANGED indexVars
  <2>1. JobsTyped' /\ \A p \in Runners : Fits(run[p])'
    BY <1>2 DEF Types, JobsTyped, Fits, Processed, indexVars
  <2> QED BY <1>2, <2>1 DEF Types, indexVars
<1> QED BY <1>1, <1>2, EditTypes, CrashTypes, DisposeTypes DEF IndexNext

--------------------------------------------------------------------------------
(* Versions: a file that is there has the newest version anybody knows of. *)

NotNewer(v, f) == v <= events + 1 /\ (tree[f] # Absent => v <= tree[f])

\* Rows and batches hold what was read after the probe of their state, or what
\* has not changed since.
RowStamps == \A s \in DOMAIN jobs, f \in Files :
    /\ NotNewer(jobs[s].rows[f], f)
    /\ jobs[s].rows[f] # Absent => s[f] <= jobs[s].rows[f]

Stamped(r) == \A f \in Files :
    /\ NotNewer(r.state[f], f)
    /\ NotNewer(r.batch[f], f)
    /\ r.batch[f] # Absent => r.state[f] <= r.batch[f]

Stamps ==
    /\ \A f \in Files : tree[f] <= events + 1
    /\ RowStamps
    /\ \A p \in Runners : Stamped(run[p])

\* Every version in the model is a natural number.
LEMMA VersionTypes ==
    ASSUME Types
    PROVE  /\ events \in Nat
           /\ \A f \in Files : tree[f] \in Nat
           /\ \A s \in DOMAIN jobs, f \in Files : jobs[s].rows[f] \in Nat /\ s[f] \in Nat
           /\ \A p \in Runners, f \in Files : run[p].state[f] \in Nat /\ run[p].batch[f] \in Nat
<1>1. \A s \in States, f \in Files : s[f] \in Nat
  BY VersionsAreNaturals DEF States
<1>2. tree \in States /\ DOMAIN jobs \subseteq States /\ events \in Nat
  BY IndexAssumption DEF Types, JobsTyped
<1>3. \A s \in DOMAIN jobs : jobs[s].rows \in States
  BY DEF Types, JobsTyped
<1>4. \A p \in Runners : run[p].state \in States /\ run[p].batch \in States
  BY DEF Types, Callers
<1> QED BY <1>1, <1>2, <1>3, <1>4

LEMMA InitStamps == IndexInit => Stamps
<1> SUFFICES ASSUME IndexInit PROVE Stamps
  OBVIOUS
<1>1. Stamped(Idle)
  BY IndexAssumption DEF Stamped, NotNewer, Idle, NoFiles, Absent, IndexInit
<1>2. RowStamps
  BY DEF IndexInit, RowStamps
<1> QED BY <1>1, <1>2 DEF IndexInit, Stamps, Absent

LEMMA IdleStamped == Types => Stamped(Idle)
BY VersionTypes DEF Stamped, NotNewer, Idle, NoFiles, Absent

LEMMA CallerStamps ==
    ASSUME Types, Stamps, NEW p \in Runners, NEW r, run' = [run EXCEPT ![p] = r],
           Stamped(r), UNCHANGED <<tree, jobs, events>>
    PROVE  Stamps'
<1>1. run'[p] = r /\ \A q \in Runners : q # p => run'[q] = run[q]
  BY DEF Types
<1>2. \A q \in Runners : Stamped(run[q])'
  BY <1>1 DEF Stamps, Stamped, NotNewer
<1>3. RowStamps'
  BY DEF Stamps, RowStamps, NotNewer
<1> QED BY <1>2, <1>3 DEF Stamps

\* Callers that keep their state and read nothing.
LEMMA QuietStamps ==
    ASSUME Types, Types', Stamps, RowStamps', tree' = tree, events <= events',
           \A q \in Runners :
               \/ run'[q] = Idle
               \/ /\ run'[q].state = run[q].state
                  /\ run'[q].batch = run[q].batch \/ run'[q].batch = NoFiles
    PROVE  Stamps'
<1>1. events \in Nat /\ events' \in Nat /\ \A f \in Files : tree[f] \in Nat
  BY IndexAssumption, VersionTypes DEF Types
<1>2. ASSUME NEW v \in Nat, NEW f \in Files, NotNewer(v, f) PROVE NotNewer(v, f)'
  <2>1. v <= events + 1
    BY <1>2 DEF NotNewer
  <2>2. ASSUME NEW a \in Nat, NEW b \in Nat, a <= b, v <= a + 1 PROVE v <= b + 1
    BY <2>2
  <2>3. v <= events' + 1
    BY <1>1, <2>1, <2>2
  <2>4. tree'[f] # Absent => v <= tree'[f]
    BY <1>2 DEF NotNewer
  <2> QED BY <2>3, <2>4 DEF NotNewer
<1>3. ASSUME NEW f \in Files PROVE NoFiles[f] = 0 /\ NotNewer(NoFiles[f], f)'
  <2>1. NoFiles[f] = 0 /\ NotNewer(0, f)
    BY <1>1 DEF NotNewer, NoFiles, Absent
  <2> QED BY <1>2, <2>1
<1>4. ASSUME NEW q \in Runners PROVE Stamped(run[q])'
  <2>1. CASE run'[q] = Idle
    BY <1>3, <2>1 DEF Stamped, Idle, Absent
  <2>2. CASE run'[q] # Idle
    BY <1>2, <1>3, <2>2, VersionTypes DEF Stamped, Stamps, Absent
  <2> QED BY <2>1, <2>2
<1>5. \A f \in Files : tree'[f] <= events' + 1
  BY <1>1 DEF Stamps
<1> QED BY <1>4, <1>5 DEF Stamps

\* The rows of no job change, or there is a new job without rows.
LEMMA RowsKept ==
    ASSUME Types, Stamps, tree' = tree, events' = events,
           \A s \in DOMAIN jobs' :
               \/ s \in DOMAIN jobs /\ jobs'[s].rows = jobs[s].rows
               \/ jobs'[s].rows = NoFiles
    PROVE  RowStamps'
<1>1. \A f \in Files : NoFiles[f] = 0 /\ NotNewer(0, f)
  BY VersionTypes DEF NotNewer, NoFiles, Absent
<1> QED BY <1>1 DEF Stamps, RowStamps, NotNewer, Absent

LEMMA ProbeStamps ==
    ASSUME Types, Stamps, NEW p \in Runners, Probe(p)
    PROVE  Stamps'
<1> DEFINE r == [Idle EXCEPT !.at = "begin", !.state = tree, !.prev = current]
<1>1. \A f \in Files : NotNewer(tree[f], f)
  BY VersionTypes DEF Stamps, NotNewer
<1>2. Stamped(r)
  BY <1>1, IdleStamped DEF Stamped, Idle, NoFiles
<1> QED BY <1>2, CallerStamps DEF Probe

LEMMA AfterFileStamps ==
    ASSUME Types, Stamps, NEW p \in Runners, NEW f \in Files, NEW content \in Nat,
           AfterFile(p, f, content), NotNewer(content, f),
           content # Absent => run[p].state[f] <= content,
           UNCHANGED <<tree, jobs, events>>
    PROVE  Stamps'
<1> DEFINE batch == [run[p].batch EXCEPT ![f] = content]
           todo == run[p].todo \ {f}
<1>1. PICK at \in {"save", "next"} :
         run' = [run EXCEPT ![p] = [run[p] EXCEPT !.at = at, !.todo = todo, !.batch = batch]]
  BY DEF AfterFile
<1>2. run[p] \in Callers /\ run[p].batch \in States
  BY DEF Types, Callers
<1>3. \A g \in Files : batch[g] = IF g = f THEN content ELSE run[p].batch[g]
  BY <1>2 DEF States
<1>4. Stamped(run[p])
  BY DEF Stamps
<1> HIDE DEF batch
<1>5. Stamped([run[p] EXCEPT !.at = at, !.todo = todo, !.batch = batch])
  BY <1>2, <1>3, <1>4 DEF Stamped, Callers
<1> QED BY <1>1, <1>5, CallerStamps

LEMMA FileStamps ==
    ASSUME Types, Stamps, NEW p \in Runners, Reuse(p) \/ Read(p)
    PROVE  Stamps'
<1> DEFINE f == First(run[p].todo)
<1>1. Fits(run[p])
  BY DEF Types
<1>2. f \in Files
  BY <1>1, FirstIsThere DEF Fits, Callers, Reuse, Read
<1> HIDE DEF f
<1>3. CASE Reuse(p)
  <2>1. run[p].prev \in DOMAIN jobs /\ run[p].prev[f] = run[p].state[f]
    BY <1>1, <1>3 DEF Fits, Reuse, f
  <2> DEFINE content == jobs[run[p].prev].rows[f]
  <2>2. content \in Nat /\ NotNewer(content, f)
        /\ (content # Absent => run[p].state[f] <= content)
    BY <1>2, <2>1, VersionTypes DEF Stamps, RowStamps
  <2> QED BY <1>2, <1>3, <2>2, AfterFileStamps DEF Reuse, f
<1>4. CASE Read(p) /\ tree[f] = Absent
  <2>1. run' = [run EXCEPT ![p] = [run[p] EXCEPT !.at = "fail"]]
    BY <1>4 DEF Read, GoTo, f
  <2>2. Stamped([run[p] EXCEPT !.at = "fail"])
    BY <1>1 DEF Stamps, Stamped, Fits, Callers
  <2> QED BY <1>4, <2>1, <2>2, CallerStamps DEF Read
<1>5. CASE Read(p) /\ tree[f] # Absent
  <2>1. tree[f] \in Nat /\ NotNewer(tree[f], f) /\ run[p].state[f] <= tree[f]
    BY <1>2, <1>5, VersionTypes DEF Stamps, Stamped, NotNewer
  <2>2. AfterFile(p, f, tree[f])
    BY <1>5 DEF Read, f
  <2> QED BY <1>2, <1>5, <2>1, <2>2, AfterFileStamps DEF Read
<1> QED BY <1>3, <1>4, <1>5

LEMMA SaveBatchStamps ==
    ASSUME Types, Stamps, Types', NEW p \in Runners, SaveBatch(p)
    PROVE  Stamps'
<1> PICK s : s = run[p].state
  OBVIOUS
<1>1. /\ s \in DOMAIN jobs /\ DOMAIN jobs' = DOMAIN jobs
      /\ jobs'[s].rows = Merged(jobs[s].rows, run[p].batch)
      /\ \A t \in DOMAIN jobs : t # s => jobs'[t] = jobs[t]
  BY SaveJobs
<1>2. \A f \in Files : jobs'[s].rows[f] \in {run[p].batch[f], jobs[s].rows[f]}
  BY <1>1 DEF Merged
<1>3. tree' = tree /\ events' = events
  BY DEF SaveBatch
<1>4. ASSUME NEW t \in DOMAIN jobs, NEW f \in Files
      PROVE  NotNewer(jobs'[t].rows[f], f)
             /\ (jobs'[t].rows[f] # Absent => t[f] <= jobs'[t].rows[f])
  BY <1>1, <1>2 DEF Stamps, RowStamps, Stamped
<1>5. RowStamps'
  BY <1>1, <1>3, <1>4 DEF RowStamps, NotNewer
<1>6. \A q \in Runners :
         \/ run'[q] = Idle
         \/ /\ run'[q].state = run[q].state
            /\ run'[q].batch = run[q].batch \/ run'[q].batch = NoFiles
  BY DEF SaveBatch, Drop, Types, Callers
<1> QED BY <1>3, <1>5, <1>6, QuietStamps, VersionTypes

\* The steps that neither read the tree nor write a row.
LEMMA OtherStamps ==
    ASSUME Types, Stamps, Types', NEW p \in Runners,
           \/ BeginNew(p) \/ BeginResumed(p) \/ BeginCompleted(p) \/ Promote(p)
           \/ Stat(p) \/ SaveRefused(p) \/ ProbeAgain(p)
           \/ Publish(p) \/ PublishedAlready(p) \/ MarkFailed(p)
    PROVE  Stamps'
<1> PICK s : s = run[p].state
  OBVIOUS
<1>1. \A q \in Runners :
         run'[q] = Idle \/ (run'[q].state = run[q].state /\ run'[q].batch = run[q].batch)
  BY DEF BeginNew, BeginResumed, Select, BeginCompleted, Promote, Stat, SaveRefused,
         ProbeAgain, Publish, PublishedAlready, MarkFailed, GoTo, Drop, Types, Callers
<1>2. tree' = tree /\ events' = events
  BY DEF BeginNew, BeginResumed, BeginCompleted, Promote, Stat, SaveRefused,
         ProbeAgain, Publish, PublishedAlready, MarkFailed
<1>3. \A t \in DOMAIN jobs' :
         \/ t \in DOMAIN jobs /\ jobs'[t].rows = jobs[t].rows
         \/ jobs'[t].rows = NoFiles
  BY DEF BeginNew, BeginResumed, BeginCompleted, Promote, Stat, SaveRefused,
         ProbeAgain, Publish, PublishedAlready, MarkFailed, Types, JobsTyped
<1>4. RowStamps'
  BY <1>2, <1>3, RowsKept
<1> QED BY <1>1, <1>2, <1>4, QuietStamps, VersionTypes

LEMMA EditStamps ==
    ASSUME Types, Stamps, NEW f \in Files, Edit(f)
    PROVE  Stamps'
<1>1. \A g \in Files : g # f => tree'[g] = tree[g]
  BY DEF Edit, Types, States
<1>2. events' = events + 1 /\ tree'[f] \in {Absent, events + 2}
  BY DEF Edit, Types, States
<1>3. ASSUME NEW v \in Nat, NEW g \in Files, NotNewer(v, g) PROVE NotNewer(v, g)'
  <2>1. v <= events + 1 /\ v <= events' + 1
    BY <1>2, <1>3, VersionTypes DEF NotNewer
  <2>2. CASE g = f
    BY <1>2, <2>1, <2>2, VersionTypes DEF NotNewer
  <2>3. CASE g # f
    BY <1>1, <1>3, <2>1, <2>3 DEF NotNewer
  <2> QED BY <2>2, <2>3
<1>4. RowStamps'
  BY <1>3, VersionTypes DEF Edit, Stamps, RowStamps
<1>5. \A p \in Runners : Stamped(run[p])'
  BY <1>3, VersionTypes DEF Edit, Stamps, Stamped
<1>6. \A g \in Files : tree'[g] <= events' + 1
  BY <1>1, <1>2, VersionTypes DEF Stamps, Absent
<1> QED BY <1>4, <1>5, <1>6 DEF Stamps

LEMMA AroundStamps ==
    ASSUME Types, Stamps, Types', Crash \/ DisposeStale
    PROVE  Stamps'
<1>1. \A q \in Runners :
         run'[q] = Idle \/ (run'[q].state = run[q].state /\ run'[q].batch = run[q].batch)
  BY DEF Crash, DisposeStale
<1>2. tree' = tree /\ DOMAIN jobs' = DOMAIN jobs
      /\ \A t \in DOMAIN jobs : jobs'[t].rows = jobs[t].rows
  BY DEF Crash, DisposeStale, Types, JobsTyped
<1>3. events' \in {events, events + 1} /\ events <= events'
  BY VersionTypes DEF Crash, DisposeStale
<1>4. ASSUME NEW v \in Nat, NEW f \in Files, NotNewer(v, f) PROVE NotNewer(v, f)'
  BY <1>2, <1>3, <1>4, VersionTypes DEF NotNewer
<1>5. RowStamps'
  BY <1>2, <1>4, VersionTypes DEF Stamps, RowStamps
<1> QED BY <1>1, <1>2, <1>3, <1>5, QuietStamps

LEMMA NextStamps == Types /\ Stamps /\ [IndexNext]_indexVars => Stamps'
<1> SUFFICES ASSUME Types, Stamps, [IndexNext]_indexVars PROVE Stamps'
  OBVIOUS
<1>1. Types'
  BY NextTypes
<1>2. ASSUME NEW p \in Runners, CallerStep(p) PROVE Stamps'
  BY <1>1, <1>2, ProbeStamps, FileStamps, SaveBatchStamps, OtherStamps DEF CallerStep
<1>3. CASE UNCHANGED indexVars
  BY <1>3 DEF Stamps, Stamped, RowStamps, NotNewer, indexVars
<1> QED BY <1>1, <1>2, <1>3, EditStamps, AroundStamps DEF IndexNext

--------------------------------------------------------------------------------
(* Completed jobs. *)

KeepsCompleted == \A s \in DOMAIN jobs :
    jobs[s].status = "completed" => s \in DOMAIN jobs' /\ jobs'[s] = jobs[s]

CompletesNone == \A s \in DOMAIN jobs' :
    jobs'[s].status = "completed" => s \in DOMAIN jobs /\ jobs[s].status = "completed"

\* Whoever writes to a job looks at its status in the same transaction.
LEMMA StepKeepsCompleted ==
    ASSUME Types, [IndexNext]_indexVars
    PROVE  KeepsCompleted
<1>1. ASSUME NEW p \in Runners,
             BeginNew(p) \/ BeginResumed(p) \/ SaveBatch(p) \/ Publish(p) \/ MarkFailed(p)
      PROVE  KeepsCompleted
  BY <1>1 DEF BeginNew, BeginResumed, SaveBatch, Writable, Publish, MarkFailed, Fails,
              Types, JobsTyped, KeepsCompleted
<1>2. CASE DisposeStale
  BY <1>2 DEF DisposeStale, Stale, KeepsCompleted
<1>3. CASE jobs' = jobs
  BY <1>3 DEF KeepsCompleted
<1>4. ASSUME NEW p \in Runners, CallerStep(p) PROVE KeepsCompleted
  BY <1>1, <1>3, <1>4 DEF CallerStep, Probe, BeginCompleted, Promote, Reuse, Stat, Read,
         SaveRefused, ProbeAgain, PublishedAlready
<1> QED BY <1>2, <1>3, <1>4 DEF IndexNext, Edit, Crash, indexVars

\* Only a publication completes a job.
LEMMA StepCompletesNone ==
    ASSUME Types, [IndexNext]_indexVars, \A p \in Runners : ~Publish(p)
    PROVE  CompletesNone
<1>1. ASSUME NEW p \in Runners,
             BeginNew(p) \/ BeginResumed(p) \/ SaveBatch(p) \/ MarkFailed(p)
      PROVE  CompletesNone
  BY <1>1 DEF BeginNew, BeginResumed, SaveBatch, MarkFailed, Types, JobsTyped, CompletesNone
<1>2. CASE DisposeStale
  BY <1>2 DEF DisposeStale, Stale, CompletesNone, Types, JobsTyped
<1>3. CASE jobs' = jobs
  BY <1>3 DEF CompletesNone
<1>4. ASSUME NEW p \in Runners, CallerStep(p) PROVE CompletesNone
  BY <1>1, <1>3, <1>4 DEF CallerStep, Probe, BeginCompleted, Promote, Reuse, Stat, Read,
         SaveRefused, ProbeAgain, PublishedAlready
<1> QED BY <1>2, <1>3, <1>4 DEF IndexNext, Edit, Crash, indexVars

--------------------------------------------------------------------------------
(* Callers that work on the same job. *)

Alone == \A p, q \in Runners :
    /\ p # q
    /\ run[p].at \in Middle /\ run[q].at \in Middle
    /\ run[p].state = run[q].state
    => run[p].state \in shared

\* Only begin_or_resume_job brings a caller to a job.
LEMMA StepKeepsMiddle ==
    ASSUME Types, [IndexNext]_indexVars,
           \A p \in Runners : ~BeginNew(p) /\ ~BeginResumed(p),
           NEW q \in Runners, run'[q].at \in Middle
    PROVE  run[q].at \in Middle /\ run'[q].state = run[q].state
<1>1. ASSUME NEW p \in Runners, CallerStep(p)
      PROVE  run[q].at \in Middle /\ run'[q].state = run[q].state
  <2>1. CASE q # p
    BY <1>1, <2>1 DEF CallerStep, Probe, BeginCompleted, Promote, Reuse, Stat, Read, AfterFile,
           SaveBatch, SaveRefused, ProbeAgain, Publish, PublishedAlready, MarkFailed,
           GoTo, Drop, Types
  <2>2. CASE q = p /\ (Reuse(p) \/ Read(p))
    BY <2>2 DEF Reuse, Read, AfterFile, GoTo, Types, Callers, Middle
  <2>3. CASE q = p /\ SaveBatch(p)
    BY <2>3 DEF SaveBatch, Drop, Idle, Types, Callers, Middle
  <2>4. CASE q = p /\ (Stat(p) \/ SaveRefused(p) \/ ProbeAgain(p))
    BY <2>4 DEF Stat, SaveRefused, ProbeAgain, GoTo, Types, Callers, Middle
  <2>5. CASE q = p /\ (Probe(p) \/ BeginCompleted(p))
    BY <2>5 DEF Probe, BeginCompleted, GoTo, Idle, Types, Callers, Middle
  <2>6. CASE q = p /\ (Promote(p) \/ Publish(p) \/ PublishedAlready(p) \/ MarkFailed(p))
    BY <2>6 DEF Promote, Publish, PublishedAlready, MarkFailed, Drop, Idle, Types, Middle
  <2> QED BY <1>1, <2>1, <2>2, <2>3, <2>4, <2>5, <2>6 DEF CallerStep
<1> QED BY <1>1 DEF IndexNext, Edit, Crash, DisposeStale, indexVars, Idle, Middle

LEMMA NextAlone == Types /\ Alone /\ [IndexNext]_indexVars => Alone'
<1> SUFFICES ASSUME Types, Alone, [IndexNext]_indexVars PROVE Alone'
  OBVIOUS
<1>1. CASE \A p \in Runners : ~BeginNew(p) /\ ~BeginResumed(p)
  <2>1. shared' = shared
    BY <1>1 DEF IndexNext, CallerStep, Probe, BeginCompleted, Promote, Reuse, Stat, Read,
           SaveBatch, SaveRefused, ProbeAgain, Publish, PublishedAlready, MarkFailed,
           Edit, Crash, DisposeStale, indexVars
  <2> QED BY <1>1, <2>1, StepKeepsMiddle DEF Alone
<1>2. ASSUME NEW p \in Runners, BeginNew(p) \/ BeginResumed(p)
      PROVE  Alone'
  <2> PICK s : s = run[p].state
    OBVIOUS
  <2>1. /\ run'[p].state = s
        /\ \A q \in Runners : q # p => run'[q] = run[q]
        /\ shared \subseteq shared'
    BY <1>2 DEF BeginNew, BeginResumed, Select, GoTo, Types, Callers
  <2>2. ASSUME NEW q \in Runners, q # p, run[q].at \in Middle, run[q].state = s
        PROVE  s \in shared'
    <3>1. s \in DOMAIN jobs
      BY <2>2 DEF Types, Fits, Middle
    <3>2. q \in Others(p, s)
      BY <2>2 DEF Others, Middle
    <3> QED BY <1>2, <3>1, <3>2 DEF BeginNew, BeginResumed
  <2> QED BY <2>1, <2>2 DEF Alone
<1> QED BY <1>1, <1>2

--------------------------------------------------------------------------------
(* What is published. *)

\* The rows of a job are its state, unless two callers have worked on it.
Exact(s) == s \notin shared => jobs[s].rows = s

CompletedExact == \A s \in DOMAIN jobs :
    jobs[s].status = "completed" => Candidates(s) \subseteq Processed(s) /\ Exact(s)

\* The second probe has found the state, and nobody else writes to the job.
PublishingExact == \A p \in Runners : run[p].at = "publish" => Exact(run[p].state)

PromotingCompleted == \A p \in Runners :
    run[p].at = "promote" => jobs[run[p].state].status = "completed"

CurrentCompleted == current # None => jobs[current].status = "completed"

Results == CompletedExact /\ PublishingExact /\ PromotingCompleted /\ CurrentCompleted

LEMMA SharedGrows ==
    ASSUME [IndexNext]_indexVars
    PROVE  shared \subseteq shared'
BY DEF IndexNext, CallerStep, Probe, BeginNew, BeginResumed, BeginCompleted, Promote,
       Reuse, Stat, Read, SaveBatch, SaveRefused, ProbeAgain, Publish, PublishedAlready,
       MarkFailed, Edit, Crash, DisposeStale, indexVars

\* The rows were read no earlier than the first probe and are no newer than the
\* tree at the second: if both see the same state, they are that state.
LEMMA SecondProbeExact ==
    ASSUME Types, Stamps, NEW p \in Runners, run[p].at = "probe", SameState(run[p].state)
    PROVE  jobs[run[p].state].rows = run[p].state
<1> DEFINE s == run[p].state
<1>1. s \in DOMAIN jobs /\ Candidates(s) \subseteq Processed(s) /\ tree = s
  BY DEF Types, Fits, SameState
<1>2. Processed(s) \subseteq Candidates(s) /\ jobs[s].rows \in States /\ s \in States
  BY <1>1 DEF Types, JobsTyped
<1> HIDE DEF s
<1>3. ASSUME NEW f \in Files PROVE jobs[s].rows[f] = s[f]
  <2>1. jobs[s].rows[f] \in Nat /\ s[f] \in Nat
    BY <1>1, VersionTypes
  <2>2. CASE s[f] = Absent
    BY <1>2, <2>2 DEF Candidates, Processed
  <2>3. CASE s[f] # Absent
    <3>1. jobs[s].rows[f] # Absent /\ tree[f] # Absent
      BY <1>1, <2>3 DEF Candidates, Processed
    <3>2. s[f] <= jobs[s].rows[f] /\ jobs[s].rows[f] <= s[f]
      BY <1>1, <3>1 DEF Stamps, RowStamps, NotNewer
    <3> QED BY <2>1, <3>2
  <2> QED BY <2>2, <2>3
<1>4. jobs[s].rows = s
  BY <1>2, <1>3 DEF States
<1> QED BY <1>4 DEF s

\* A step that writes rows of the job a caller is about to publish is one of
\* another caller, and the job is shared.
LEMMA RowsOfPublishing ==
    ASSUME Types, Alone, [IndexNext]_indexVars, NEW q \in Runners, run[q].at = "publish",
           NEW s, s = run[q].state, s \notin shared
    PROVE  s \in DOMAIN jobs' /\ jobs'[s].rows = jobs[s].rows
<1>1. s \in DOMAIN jobs
  BY DEF Types, Fits
<1>2. ASSUME NEW p \in Runners, SaveBatch(p)
      PROVE  s \in DOMAIN jobs' /\ jobs'[s].rows = jobs[s].rows
  <2>1. run[p].state # s
    BY <1>2 DEF Alone, SaveBatch, Middle
  <2>2. run[p].state \in DOMAIN jobs
    BY <1>2 DEF Types, Fits, SaveBatch
  <2> QED BY <1>1, <1>2, <2>1, <2>2 DEF SaveBatch
<1>3. ASSUME NEW p \in Runners,
             BeginNew(p) \/ BeginResumed(p) \/ Publish(p) \/ MarkFailed(p)
      PROVE  s \in DOMAIN jobs' /\ jobs'[s].rows = jobs[s].rows
  BY <1>1, <1>3 DEF BeginNew, BeginResumed, Publish, MarkFailed, Types, JobsTyped
<1>4. CASE DisposeStale
  BY <1>1, <1>4 DEF DisposeStale, Types, JobsTyped
<1>5. CASE jobs' = jobs
  BY <1>1, <1>5
<1>6. ASSUME NEW p \in Runners, CallerStep(p)
      PROVE  s \in DOMAIN jobs' /\ jobs'[s].rows = jobs[s].rows
  BY <1>2, <1>3, <1>5, <1>6 DEF CallerStep, Probe, BeginCompleted, Promote, Reuse, Stat, Read,
         SaveRefused, ProbeAgain, PublishedAlready
<1> QED BY <1>4, <1>5, <1>6 DEF IndexNext, Edit, Crash, indexVars

\* A caller comes to the publication by its second probe, and to the promotion
\* by finding a completed job.
LEMMA Arrivals ==
    ASSUME Types, [IndexNext]_indexVars, NEW q \in Runners
    PROVE  /\ run'[q].at = "publish" =>
                 /\ run'[q].state = run[q].state
                 /\ run[q].at = "publish" \/ ProbeAgain(q)
           /\ run'[q].at = "promote" =>
                 /\ run'[q].state = run[q].state
                 /\ run[q].at = "promote" \/ BeginCompleted(q)
<1>1. ASSUME NEW p \in Runners, CallerStep(p), p # q PROVE run'[q] = run[q]
  BY <1>1 DEF CallerStep, Probe, BeginNew, BeginResumed, Select, BeginCompleted, Promote,
       Reuse, Stat, Read, AfterFile, SaveBatch, SaveRefused, ProbeAgain, Publish,
       PublishedAlready, MarkFailed, GoTo, Drop, Types
<1>2. CASE ProbeAgain(q) \/ BeginCompleted(q)
  BY <1>2 DEF ProbeAgain, BeginCompleted, GoTo, Types, Callers
<1>3. ASSUME Reuse(q) \/ Read(q) \/ Stat(q)
      PROVE  run'[q].at \notin {"publish", "promote"}
  BY <1>3 DEF Reuse, Read, Stat, AfterFile, GoTo, Types, Callers
<1>4. ASSUME BeginNew(q) \/ BeginResumed(q) \/ SaveRefused(q) \/ Probe(q)
      PROVE  run'[q].at \notin {"publish", "promote"}
  <2>1. ASSUME NEW pending, Select(q, pending) PROVE run'[q].at \in {"probe", "next"}
    BY <2>1 DEF Select, GoTo, Types, Callers
  <2>2. CASE BeginNew(q) \/ BeginResumed(q)
    BY <2>1, <2>2 DEF BeginNew, BeginResumed
  <2>3. CASE SaveRefused(q) \/ Probe(q)
    BY <2>3 DEF SaveRefused, Probe, GoTo, Types, Callers, Idle
  <2> QED BY <1>4, <2>2, <2>3
<1>5. ASSUME SaveBatch(q)
      PROVE  run'[q].at \notin {"publish", "promote"}
  BY <1>5 DEF SaveBatch, Drop, Types, Callers, Idle
<1>6. ASSUME Promote(q) \/ Publish(q) \/ PublishedAlready(q) \/ MarkFailed(q)
      PROVE  run'[q].at \notin {"publish", "promote"}
  BY <1>6 DEF Promote, Publish, PublishedAlready, MarkFailed, Drop, Types, Idle
<1>7. CASE CallerStep(q)
  BY <1>2, <1>3, <1>4, <1>5, <1>6, <1>7 DEF CallerStep
<1>8. CASE \E p \in Runners : CallerStep(p) /\ p # q
  BY <1>1, <1>8
<1>9. CASE Crash
  BY <1>9 DEF Crash, Idle
<1> QED BY <1>7, <1>8, <1>9 DEF IndexNext, Edit, DisposeStale, indexVars

LEMMA NextPublishing ==
    ASSUME Types, Stamps, Alone, Results, [IndexNext]_indexVars
    PROVE  PublishingExact'
<1> SUFFICES ASSUME NEW q \in Runners, run'[q].at = "publish",
                    run'[q].state \notin shared'
             PROVE  jobs'[run'[q].state].rows = run'[q].state
  BY DEF PublishingExact, Exact
<1> PICK s : s = run[q].state
  OBVIOUS
<1>1. run'[q].state = s /\ s \notin shared
  BY Arrivals, SharedGrows
<1>2. CASE run[q].at = "publish"
  <2>1. jobs[s].rows = s
    BY <1>1, <1>2 DEF Results, PublishingExact, Exact
  <2> QED BY <1>1, <1>2, <2>1, RowsOfPublishing
<1>3. CASE ProbeAgain(q)
  <2>1. run[q].at = "probe" /\ jobs' = jobs
    BY <1>3 DEF ProbeAgain
  <2>2. SameState(run[q].state)
    BY <1>3 DEF ProbeAgain, GoTo, Types, Callers
  <2> QED BY <1>1, <2>1, <2>2, SecondProbeExact
<1> QED BY <1>2, <1>3, Arrivals

LEMMA NextPromoting ==
    ASSUME Types, Results, [IndexNext]_indexVars
    PROVE  PromotingCompleted'
<1> SUFFICES ASSUME NEW q \in Runners, run'[q].at = "promote"
             PROVE  jobs'[run'[q].state].status = "completed"
  BY DEF PromotingCompleted
<1> PICK s : s = run[q].state
  OBVIOUS
<1>1. run'[q].state = s
  BY Arrivals
<1>2. s \in DOMAIN jobs /\ jobs[s].status = "completed"
  BY Arrivals DEF BeginCompleted, Results, PromotingCompleted, Types, Fits
<1> QED BY <1>1, <1>2, StepKeepsCompleted DEF KeepsCompleted

LEMMA NextCompleted ==
    ASSUME Types, Results, [IndexNext]_indexVars
    PROVE  CompletedExact' /\ CurrentCompleted'
<1>1. KeepsCompleted /\ shared \subseteq shared'
  BY StepKeepsCompleted, SharedGrows
<1>2. ASSUME NEW p \in Runners, Publish(p)
      PROVE  CompletedExact' /\ CurrentCompleted'
  <2> PICK s : s = run[p].state
    OBVIOUS
  <2>1. s \in DOMAIN jobs /\ Candidates(s) \subseteq Processed(s) /\ Exact(s)
    BY <1>2 DEF Publish, Types, Fits, Results, PublishingExact
  <2>2. /\ DOMAIN jobs' = DOMAIN jobs
        /\ jobs'[s].status = "completed" /\ jobs'[s].rows = jobs[s].rows
        /\ \A t \in DOMAIN jobs : t # s => jobs'[t] = jobs[t]
        /\ current' = s /\ shared' = shared
    BY <1>2, <2>1 DEF Publish, Types, JobsTyped
  <2>3. ASSUME NEW t \in DOMAIN jobs, jobs'[t].status = "completed"
        PROVE  Candidates(t) \subseteq Processed(t)' /\ Exact(t)'
    BY <2>1, <2>2, <2>3 DEF Results, CompletedExact, Exact, Processed
  <2> QED BY <2>2, <2>3 DEF CompletedExact, CurrentCompleted, Candidates
<1>3. CASE \A p \in Runners : ~Publish(p)
  <2>1. CompletesNone
    BY <1>3, StepCompletesNone
  <2>2. ASSUME NEW t \in DOMAIN jobs', jobs'[t].status = "completed"
        PROVE  Candidates(t) \subseteq Processed(t)' /\ Exact(t)'
    <3>1. t \in DOMAIN jobs /\ jobs[t].status = "completed" /\ jobs'[t] = jobs[t]
      BY <1>1, <2>1, <2>2 DEF CompletesNone, KeepsCompleted
    <3>2. Candidates(t) \subseteq Processed(t) /\ Exact(t)
      BY <3>1 DEF Results, CompletedExact
    <3> QED BY <1>1, <3>1, <3>2 DEF Exact, Processed
  <2>3. CompletedExact'
    BY <2>2 DEF CompletedExact, Candidates
  <2>4. ASSUME NEW p \in Runners, Promote(p) PROVE CurrentCompleted'
    BY <1>1, <2>4 DEF Promote, MovePointer, Results, PromotingCompleted, CurrentCompleted,
           Types, Fits
  <2>5. ASSUME current' = current PROVE CurrentCompleted'
    BY <1>1, <2>5 DEF Results, CurrentCompleted, KeepsCompleted, Types
  <2>6. current' = current \/ \E p \in Runners : Promote(p)
    BY <1>3 DEF IndexNext, CallerStep, Probe, BeginNew, BeginResumed, BeginCompleted,
           Reuse, Stat, Read, SaveBatch, SaveRefused, ProbeAgain, PublishedAlready,
           MarkFailed, Edit, Crash, DisposeStale, indexVars
  <2> QED BY <2>3, <2>4, <2>5, <2>6
<1> QED BY <1>2, <1>3

--------------------------------------------------------------------------------
(* Theorems. *)

Inv == Types /\ Stamps /\ Alone /\ Results

LEMMA InitInv == IndexInit => Inv
<1> SUFFICES ASSUME IndexInit PROVE Inv
  OBVIOUS
<1>1. \A p \in Runners : run[p].at = "idle"
  BY DEF IndexInit, Idle
<1>2. DOMAIN jobs = {} /\ current = None
  BY DEF IndexInit
<1> QED BY <1>1, <1>2, InitTypes, InitStamps
     DEF Inv, Alone, Middle, Results, CompletedExact, PublishingExact, PromotingCompleted,
         CurrentCompleted

LEMMA NextInv == Inv /\ [IndexNext]_indexVars => Inv'
BY NextTypes, NextStamps, NextAlone, NextPublishing, NextPromoting, NextCompleted
   DEF Inv, Results

\* Jobs, callers, versions and the pointer agree after every step of any number
\* of callers (repository_index_service.py, repository_index_store_jobs.py).
THEOREM IndexInvariant == IndexSpec => []Inv
BY InitInv, NextInv, PTL DEF IndexSpec

\* Rows belong to candidates, and who is about to publish has a row for each.
THEOREM IndexTypesHold == IndexSpec => []IndexTypeOK
<1>1. Inv => IndexTypeOK
  BY TypesSuffice DEF Inv
<1> QED BY <1>1, IndexInvariant, PTL

\* What is published is the tree its state names, however it was edited between
\* the probes, between the stat and the read of a file, and across crashes.
THEOREM SnapshotsAreFaithful == IndexSpec => []SnapshotFaithful
<1>1. ASSUME Inv PROVE SnapshotFaithful
  <2>1. ASSUME NEW s \in DOMAIN jobs, jobs[s].status = "completed", NEW f \in Candidates(s)
        PROVE  jobs[s].rows[f] >= s[f]
    <3>1. f \in Files /\ jobs[s].rows[f] # Absent
      BY <1>1, <2>1 DEF Inv, Results, CompletedExact, Processed, Candidates
    <3>2. s[f] <= jobs[s].rows[f] /\ s[f] \in Nat /\ jobs[s].rows[f] \in Nat
      BY <1>1, <3>1, VersionTypes DEF Inv, Stamps, RowStamps
    <3> QED BY <3>2
  <2> QED BY <1>1, <2>1 DEF Inv, Results, CompletedExact, CurrentCompleted, Exact,
             SnapshotFaithful
<1> QED BY <1>1, IndexInvariant, PTL

\* No caller writes to a job that another one has completed (save_batch and
\* mark_failed ask for a running job, finalize_job for one not completed).
THEOREM CompletedJobsStay == IndexSpec => CompletedJobsImmutable
<1>1. Types /\ [IndexNext]_indexVars =>
        [\A s \in DOMAIN jobs :
            jobs[s].status = "completed" => s \in DOMAIN jobs' /\ jobs'[s] = jobs[s]]_indexVars
  BY StepKeepsCompleted DEF KeepsCompleted
<1>2. Inv => Types
  BY DEF Inv
<1> QED BY <1>1, <1>2, IndexInvariant, PTL DEF IndexSpec, CompletedJobsImmutable

================================================================================
