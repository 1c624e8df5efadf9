------------------------------- MODULE Startup -------------------------------
(***************************************************************************)
(* Instances of the application start, serve and stop on one Postgres and  *)
(* one Redis: the pool is opened, the schema ensured under an advisory     *)
(* lock, the connector configuration read and the first admin account      *)
(* created.  Serving instances answer the requests of module AdminArea.    *)
(*                                                                         *)
(* Each await ends a step; inst[i].at names the await at which instance i  *)
(* waits.                                                                  *)
(***************************************************************************)
EXTENDS AdminArea

CONSTANTS
  Instances,   \* instances of the application
  Widths,      \* embedding widths deployments are configured with
  Faults,      \* what may fail, see FaultKinds
  NoTable,     \* the table does not exist
  Nobody       \* the advisory lock is free

\* "postgres": a connection or a statement fails.  "redis": a command fails, or
\* the answer to one that took effect is lost.  "kill": an instance dies.
FaultKinds == {"postgres", "redis", "kill"}

ASSUME StartupAssumption ==
  /\ Faults \subseteq FaultKinds
  /\ NoTable \notin Widths
  /\ Nobody \notin Instances
  /\ NoAccount \notin Account

VARIABLES
  inst,     \* the instances
  starts,   \* starts so far (bounded by MaxStarts)
  lock,     \* holder of the advisory lock
  table     \* width of the committed table

startVars == <<inst, starts, lock, table>>
vars == <<adminVars, startVars>>

SchemaSteps == {"lock", "create", "width", "commit"}
BootSteps == {"config", "anyExists", "setUser", "indexUser", "print"}
Starting == {"pool"} \cup SchemaSteps \cup BootSteps
InstanceSteps == Starting \cup {"down", "serving", "closing"}

\* made: its transaction has created the table and not committed it.  pool: the
\* connection pool is open, or partly so.  temporary: the password it would
\* create the account with.
Instance == [at : InstanceSteps, width : Widths \cup {NoTable}, made : BOOLEAN,
             pool : BOOLEAN, temporary : 0..MaxStarts]

Down == [at |-> "down", width |-> NoTable, made |-> FALSE, pool |-> FALSE,
         temporary |-> 0]

Init ==
  /\ AdminInit
  /\ inst = [i \in Instances |-> Down]
  /\ starts = 0
  /\ lock = Nobody
  /\ table = NoTable

-----------------------------------------------------------------------------
Waits(i, step) == inst[i].at = step
Proceed(i, step) == inst' = [inst EXCEPT ![i].at = step]

\* Variant: the lock outlives a transaction that is rolled back.
LockKept(i) == lock

\* The lock of a transaction ends with it.
LockReleased(i) == IF lock = i THEN Nobody ELSE lock

\* A deployment starts the instance with some width.
Start(i) ==
  /\ Waits(i, "down")
  /\ starts < MaxStarts
  /\ starts' = starts + 1
  /\ \E w \in Widths :
       inst' = [inst EXCEPT ![i] = [Down EXCEPT !.at = "pool", !.width = w,
                                                !.temporary = starts + 1]]
  /\ UNCHANGED <<adminVars, lock, table>>

\* AppResources.open: the pool, then the schema.
PoolOpened(i) ==
  /\ Waits(i, "pool")
  /\ inst' = [inst EXCEPT ![i].at = "lock", ![i].pool = TRUE]
  /\ UNCHANGED <<adminVars, starts, lock, table>>

-----------------------------------------------------------------------------
\* ensure_schema, one transaction.

\* Variant: no lock.
LockFreeAlways == TRUE

LockFree == lock = Nobody

LockTaken(i) ==
  /\ Waits(i, "lock")
  /\ LockFree
  /\ lock' = i
  /\ Proceed(i, "create")
  /\ UNCHANGED <<adminVars, starts, table>>

\* CREATE ... IF NOT EXISTS sees what is committed.
TableEnsured(i) ==
  /\ Waits(i, "create")
  /\ inst' = [inst EXCEPT ![i].at = "width", ![i].made = table = NoTable]
  /\ UNCHANGED <<adminVars, starts, lock, table>>

\* _check_existing_width.
WidthFits(i) == inst[i].made \/ table = inst[i].width

WidthChecked(i) ==
  /\ Waits(i, "width")
  /\ WidthFits(i)
  /\ Proceed(i, "commit")
  /\ UNCHANGED <<adminVars, starts, lock, table>>

\* The index is created and the transaction committed.
SchemaCommitted(i) ==
  /\ Waits(i, "commit")
  /\ table' = IF inst[i].made THEN inst[i].width ELSE table
  /\ inst' = [inst EXCEPT ![i].at = "config", ![i].made = FALSE]
  /\ lock' = LockReleased(i)
  /\ UNCHANGED <<adminVars, starts>>

\* Variant: open() stands before the try.
LifespanEndsUnclosed(i) ==
  /\ inst' = [inst EXCEPT ![i].at = "down", ![i].made = FALSE]
  /\ lock' = LockReleased(i)
  /\ UNCHANGED <<starts, table>>

\* An exception ends the lifespan: the transaction is rolled back, and the
\* resources are closed because open() is inside the try.
LifespanEnds(i) ==
  /\ inst' = [inst EXCEPT ![i].at = "closing", ![i].made = FALSE]
  /\ lock' = LockReleased(i)
  /\ UNCHANGED <<starts, table>>

WidthRefused(i) ==
  /\ Waits(i, "width")
  /\ ~WidthFits(i)
  /\ LifespanEnds(i)
  /\ UNCHANGED adminVars

-----------------------------------------------------------------------------
\* _install_stores and bootstrap_admin.

ConfigRead(i) ==
  /\ Waits(i, "config")
  /\ Proceed(i, "anyExists")
  /\ UNCHANGED <<adminVars, starts, lock, table>>

\* Variant: the index is not asked.
AnyExistsUnasked(i) ==
  /\ Waits(i, "anyExists")
  /\ Proceed(i, "setUser")
  /\ UNCHANGED <<adminVars, starts, lock, table>>

\* Variant: the record is asked for, and not the index.
AnyExistsByRecord(i) ==
  /\ Waits(i, "anyExists")
  /\ Proceed(i, IF account # NoAccount THEN "serving" ELSE "setUser")
  /\ UNCHANGED <<adminVars, starts, lock, table>>

AnyExists(i) ==
  /\ Waits(i, "anyExists")
  /\ Proceed(i, IF indexed THEN "serving" ELSE "setUser")
  /\ UNCHANGED <<adminVars, starts, lock, table>>

\* AdminUserStore.put: Redis has the record, then the index.  The instance hears
\* of either a step later, and may have died by then or lost the answer.
UserSet(i) ==
  /\ Waits(i, "setUser")
  /\ account' = [password |-> inst[i].temporary, mustChange |-> TRUE]
  /\ Proceed(i, "indexUser")
  /\ UNCHANGED <<indexed, printed, sessions, config, request, starts, lock, table>>

UserIndexed(i) ==
  /\ Waits(i, "indexUser")
  /\ indexed' = TRUE
  /\ Proceed(i, "print")
  /\ UNCHANGED <<account, printed, sessions, config, request, starts, lock, table>>

\* The temporary password goes to the log, this once.
PasswordPrinted(i) ==
  /\ Waits(i, "print")
  /\ printed' = printed \cup {inst[i].temporary}
  /\ Proceed(i, "serving")
  /\ UNCHANGED <<account, indexed, sessions, config, request, starts, lock, table>>

-----------------------------------------------------------------------------
\* Stopping, and what may fail.

Stop(i) ==
  /\ Waits(i, "serving")
  /\ Proceed(i, "closing")
  /\ UNCHANGED <<adminVars, starts, lock, table>>

\* AppResources.close.
Closed(i) ==
  /\ Waits(i, "closing")
  /\ inst' = [inst EXCEPT ![i] = Down]
  /\ UNCHANGED <<adminVars, starts, lock, table>>

\* A pool that is not opened in time may have opened connections.
PoolFails(i) ==
  /\ "postgres" \in Faults
  /\ Waits(i, "pool")
  /\ inst' = [inst EXCEPT ![i].at = "closing", ![i].pool = TRUE]
  /\ UNCHANGED <<adminVars, starts, lock, table>>

SchemaFails(i) ==
  /\ "postgres" \in Faults
  /\ inst[i].at \in SchemaSteps
  /\ LifespanEnds(i)
  /\ UNCHANGED adminVars

\* A command of the bootstrap raises, before Redis has executed it or, a step
\* later, although it has.
BootFails(i) ==
  /\ "redis" \in Faults
  /\ inst[i].at \in BootSteps
  /\ LifespanEnds(i)
  /\ UNCHANGED adminVars

\* The process dies: its connections and its transaction end with it.
Killed(i) ==
  /\ "kill" \in Faults
  /\ ~Waits(i, "down")
  /\ inst' = [inst EXCEPT ![i] = Down]
  /\ lock' = LockReleased(i)
  /\ UNCHANGED <<adminVars, starts, table>>

Progress(i) ==
  \/ PoolOpened(i)
  \/ LockTaken(i)
  \/ TableEnsured(i)
  \/ WidthChecked(i)
  \/ WidthRefused(i)
  \/ SchemaCommitted(i)
  \/ ConfigRead(i)
  \/ AnyExists(i)
  \/ UserSet(i)
  \/ UserIndexed(i)
  \/ PasswordPrinted(i)
  \/ Closed(i)

Environment(i) ==
  \/ Start(i)
  \/ Stop(i)
  \/ PoolFails(i)
  \/ SchemaFails(i)
  \/ BootFails(i)
  \/ Killed(i)

\* A request is answered by some serving instance.
Served ==
  /\ \E i \in Instances : Waits(i, "serving")
  /\ \E c \in Clients : AdminStep(c)
  /\ UNCHANGED startVars

\* The instance dies, or Redis fails it.
Dropped ==
  /\ Faults \cap {"redis", "kill"} # {}
  /\ \E c \in Clients : RequestFails(c)
  /\ UNCHANGED startVars

Next ==
  \/ \E i \in Instances : Progress(i) \/ Environment(i)
  \/ Served
  \/ Dropped

Spec == Init /\ [][Next]_vars

\* Every await of an instance ends; Postgres grants the lock in turn.
FairSpec == Spec /\ \A i \in Instances : WF_vars(Progress(i))

-----------------------------------------------------------------------------
\* Properties.

TypeOK ==
  /\ AdminTypeOK
  /\ inst \in [Instances -> Instance]
  /\ starts \in 0..MaxStarts
  /\ lock \in Instances \cup {Nobody}
  /\ table \in Widths \cup {NoTable}

\* Instances that start at once do not collide on the catalog: while one has
\* created the table and not committed it, nobody else has
\* (postgres_vector.py:82-85).
TableMadeOnce ==
  \A i \in Instances :
    inst[i].made =>
      /\ table = NoTable
      /\ \A j \in Instances \ {i} : ~inst[j].made

\* An instance serves only over a table of its own width and once there is an
\* administrator, whatever failed while it and others started.
ServingMeansReady ==
  \A i \in Instances :
    Waits(i, "serving") =>
      /\ table = inst[i].width
      /\ indexed
      /\ account # NoAccount

\* However a start ends, the pool is closed and the lock is free for others.
NothingIsLeftOpen ==
  \A i \in Instances :
    /\ Waits(i, "down") => ~inst[i].pool
    /\ lock = i => inst[i].at \in SchemaSteps

\* An administrator has replaced the temporary password, and no instance is
\* left that looked for an account before there was one.
Secured == Rotated /\ \A i \in Instances : ~Waits(i, "setUser")

\* From then on no start, restart or crash puts a temporary password back: what
\* an administrator rotated is in the index, so that every later start finds it
\* there (users.py:70).
RotationSurvivesStarts == [][Secured => Secured']_vars

\* save_connector: "an empty credential leaves an existing one untouched".
BlankKeepsCredential ==
  [][\A c \in Clients :
       At(c, "savePut") /\ request[c].form = NoCredential /\ config # NoConfig
         => (config' = config)]_vars

\* Every start ends: the instance serves, or it is down again.
StartsEnd ==
  \A i \in Instances :
    Waits(i, "pool") ~> (Waits(i, "serving") \/ Waits(i, "down"))

\* An account in the index has a password that was printed or chosen, or that
\* a starting instance is about to print (the repository's README.md:49).
AccountKnown ==
  indexed =>
    /\ account # NoAccount
    /\ \/ account.password \in Known
       \/ \E i \in Instances : /\ inst[i].at \in {"indexUser", "print"}
                               /\ inst[i].temporary = account.password
=============================================================================
