---------------------------- MODULE StartupProofs ----------------------------
(***************************************************************************)
(* Proofs about Startup, for every number of instances, starts, embedding  *)
(* widths and administrators, and under every fault.                       *)
(*                                                                         *)
(* The properties speak of instances that have just created a table or     *)
(* that serve; the invariant speaks of each step before that: what a step  *)
(* has ensured of the lock, the table and the account still holds, since   *)
(* only the holder of the lock touches the table and no step removes an    *)
(* account.                                                                *)
(*                                                                         *)
(* That administrators know the account's password needs more: that Redis  *)
(* answers and nothing is killed.  That a rotation stands needs one        *)
(* instance, or that none is left which looked for an account before.      *)
(***************************************************************************)
EXTENDS Startup, TLAPS

\* What an instance that is up was started with.
Started(i) ==
  inst[i].at # "down" =>
    inst[i].width \in Widths /\ inst[i].temporary \in 1..MaxStarts

\* The lock is held exactly in the transaction.
Locks(i) == inst[i].at \in {"create", "width", "commit"} <=> lock = i

\* Only the holder of the lock has made a table that is not committed.
Makes(i) ==
  inst[i].made => inst[i].at \in {"width", "commit"} /\ table = NoTable

\* A schema that was checked fits, and stays so.
Fits(i) ==
  /\ inst[i].at = "commit" => WidthFits(i)
  /\ inst[i].at \in BootSteps \cup {"serving"} => table = inst[i].width

\* An instance that is down has closed its pool.
Closes(i) == inst[i].at = "down" => ~ inst[i].pool

\* An instance that serves, or goes on to index the account, has seen one.
Boots(i) ==
  /\ inst[i].at = "indexUser" => account # NoAccount
  /\ inst[i].at \in {"print", "serving"} => indexed

InstanceInv(i) ==
  Started(i) /\ Locks(i) /\ Makes(i) /\ Fits(i) /\ Closes(i) /\ Boots(i)

\* What the forms of requests hold.
FormsTyped ==
  \A c \in Clients :
    /\ request[c].at \in {"password", "rotate"} => request[c].form \in Chosen
    /\ request[c].at \in {"save", "saveRotated", "savePut"} =>
         request[c].form \in Credentials \cup {NoCredential}

\* An account in the index exists, and so does one whose password was put.
AccountThere ==
  /\ indexed => account # NoAccount
  /\ \A c \in Clients : request[c].at = "reindex" => account # NoAccount

StartupInv ==
  /\ TypeOK
  /\ FormsTyped
  /\ AccountThere
  /\ \A i \in Instances : InstanceInv(i)

LEMMA InitStartup == Init => StartupInv
<1> SUFFICES ASSUME Init PROVE StartupInv
  OBVIOUS
<1>1. /\ account = NoAccount /\ indexed = FALSE /\ printed = {} /\ sessions = {}
      /\ config = NoConfig /\ request = [c \in Clients |-> Idle]
      /\ inst = [i \in Instances |-> Down] /\ starts = 0
      /\ lock = Nobody /\ table = NoTable
  BY DEF Init, AdminInit
<1>2. Idle \in Request /\ Down \in Instance
  BY AdminAssumption
  DEF Idle, Request, RequestSteps, Configs, Down, Instance, InstanceSteps
<1>3. TypeOK
  <2>1. AdminTypeOK
    BY <1>1, <1>2 DEF AdminTypeOK, Configs
  <2>2. starts \in 0..MaxStarts
    BY <1>1, AdminAssumption
  <2>3. QED
    BY <1>1, <1>2, <2>1, <2>2 DEF TypeOK
<1>4. FormsTyped /\ AccountThere
  BY <1>1 DEF FormsTyped, AccountThere, Idle
<1>5. \A i \in Instances : InstanceInv(i)
  BY <1>1, StartupAssumption
  DEF InstanceInv, Started, Locks, Makes, Fits, Closes, Boots, Down, BootSteps
<1>6. QED
  BY <1>3, <1>4, <1>5 DEF StartupInv

-----------------------------------------------------------------------------
(***************************************************************************)
(* Steps of instances.  What others have ensured survives when the table   *)
(* and the lock are untouched, and accounts are not removed.               *)
(***************************************************************************)

\* The types of one instance's step.
LEMMA InstanceTyped ==
  ASSUME StartupInv, NEW i \in Instances,
         NEW x \in Instance, inst' = [inst EXCEPT ![i] = x]
  PROVE  /\ inst' \in [Instances -> Instance]
         /\ inst'[i] = x
         /\ \A j \in Instances \ {i} : inst'[j] = inst[j]
BY DEF StartupInv, TypeOK

\* An instance other than i, when i does not have the lock or leaves the table.
LEMMA OthersKeep ==
  ASSUME StartupInv, NEW i \in Instances, NEW j \in Instances, j # i,
         inst'[j] = inst[j],
         lock' = lock \/ (lock = i /\ lock' = Nobody) \/ (lock = Nobody /\ lock' = i),
         table' = table \/ (lock = i /\ table = NoTable),
         indexed => indexed',
         account # NoAccount => account' # NoAccount
  PROVE  InstanceInv(j)'
<1>1. InstanceInv(j) /\ inst[j] \in Instance
  BY DEF StartupInv, TypeOK
<1>2. Started(j)' /\ Closes(j)' /\ Boots(j)'
  BY <1>1 DEF InstanceInv, Started, Closes, Boots
<1>3. Locks(j)'
  BY <1>1, StartupAssumption DEF InstanceInv, Locks
<1>4. Makes(j)'
  BY <1>1, StartupAssumption DEF InstanceInv, Makes, Locks
<1>5. Fits(j)'
  BY <1>1, StartupAssumption
  DEF InstanceInv, Fits, Locks, WidthFits, Started, Makes, BootSteps
<1>6. QED
  BY <1>2, <1>3, <1>4, <1>5 DEF InstanceInv

\* Requests are as they were, and accounts are not removed.
LEMMA RequestsKeep ==
  ASSUME StartupInv, UNCHANGED request,
         indexed' => account' # NoAccount,
         account # NoAccount => account' # NoAccount
  PROVE  FormsTyped' /\ AccountThere'
BY DEF StartupInv, FormsTyped, AccountThere

\* A step of i that only touches its own record, the lock and the table.
LEMMA OwnStep ==
  ASSUME StartupInv, NEW i \in Instances,
         NEW x \in Instance, inst' = [inst EXCEPT ![i] = x],
         UNCHANGED adminVars,
         starts' \in 0..MaxStarts,
         lock' = lock \/ (lock = i /\ lock' = Nobody) \/ (lock = Nobody /\ lock' = i),
         table' = table \/ (lock = i /\ table = NoTable),
         table' \in Widths \cup {NoTable},
         InstanceInv(i)'
  PROVE  StartupInv'
<1>1. /\ inst' \in [Instances -> Instance]
      /\ \A j \in Instances \ {i} : inst'[j] = inst[j]
  BY InstanceTyped
<1>2. TypeOK'
  <2>1. AdminTypeOK'
    BY DEF StartupInv, TypeOK, AdminTypeOK, adminVars
  <2>2. lock' \in Instances \cup {Nobody}
    BY DEF StartupInv, TypeOK
  <2>3. QED
    BY <1>1, <2>1, <2>2 DEF TypeOK
<1>3. FormsTyped' /\ AccountThere'
  BY RequestsKeep DEF adminVars, StartupInv, AccountThere
<1>4. \A j \in Instances : InstanceInv(j)'
  <2> SUFFICES ASSUME NEW j \in Instances, j # i PROVE InstanceInv(j)'
    OBVIOUS
  <2>1. QED
    BY <1>1, OthersKeep DEF adminVars
<1>5. QED
  BY <1>2, <1>3, <1>4 DEF StartupInv

\* What the invariant says of i, with nothing quantified.
LEMMA OfInstance ==
  ASSUME StartupInv, NEW i \in Instances
  PROVE  /\ InstanceInv(i) /\ inst[i] \in Instance
         /\ starts \in 0..MaxStarts /\ MaxStarts \in Nat
         /\ lock \in Instances \cup {Nobody}
         /\ table \in Widths \cup {NoTable}
         /\ Nobody \notin Instances /\ NoTable \notin Widths
         /\ inst \in [Instances -> Instance]
BY AdminAssumption, StartupAssumption DEF StartupInv, TypeOK

LEMMA StartKeeps ==
  ASSUME StartupInv, NEW i \in Instances, Start(i)
  PROVE  StartupInv'
<1>1. PICK w \in Widths :
        inst' = [inst EXCEPT ![i] = [Down EXCEPT !.at = "pool", !.width = w,
                                                 !.temporary = starts + 1]]
  BY DEF Start
<1>2. /\ inst[i].at = "down" /\ starts < MaxStarts /\ starts' = starts + 1
      /\ UNCHANGED <<adminVars, lock, table>>
  BY DEF Start, Waits
<1>3. starts + 1 \in 1..MaxStarts /\ starts + 1 \in 0..MaxStarts
  BY <1>2, OfInstance
<1>4. Down \in Instance /\ ~ Down.made
  BY OfInstance DEF Down, Instance, InstanceSteps
<1>5. PICK y \in Instance :
        /\ y = [Down EXCEPT !.at = "pool", !.width = w, !.temporary = starts + 1]
        /\ y.at = "pool" /\ y.width \in Widths /\ y.temporary \in 1..MaxStarts
        /\ ~ y.made
  <2>1. PICK n \in 0..MaxStarts : n = starts + 1
    BY <1>3
  <2>2. PICK d \in Instance : d = Down
    BY <1>4
  <2>3. PICK y : y = [d EXCEPT !.at = "pool", !.width = w, !.temporary = n]
    OBVIOUS
  <2>4. /\ y \in Instance /\ y.at = "pool" /\ y.width = w
        /\ y.temporary = n /\ y.made = d.made
    BY <2>3 DEF Instance, InstanceSteps, Starting
  <2>5. QED
    BY <1>3, <1>4, <2>1, <2>2, <2>3, <2>4
<1>6. InstanceInv(i)'
  <2>1. inst'[i] = y /\ inst' = [inst EXCEPT ![i] = y]
    BY <1>1, <1>5, OfInstance
  <2>2. lock' # i
    BY <1>2, OfInstance DEF InstanceInv, Locks
  <2>3. QED
    BY <1>5, <2>1, <2>2
    DEF InstanceInv, Started, Locks, Makes, Fits, Closes, Boots, BootSteps, WidthFits
<1>7. QED
  BY <1>1, <1>2, <1>3, <1>5, <1>6, OwnStep, OfInstance

\* A step that moves i on, and nothing else.
LEMMA MoveKeeps ==
  ASSUME StartupInv, NEW i \in Instances,
         UNCHANGED <<adminVars, starts, lock, table>>,
         NEW x \in Instance, inst' = [inst EXCEPT ![i] = x],
         inst[i].at # "down", x.width = inst[i].width,
         x.temporary = inst[i].temporary,
         x.made => x.at \in {"width", "commit"} /\ table = NoTable,
         x.at # "down",
         inst[i].at \in {"create", "width", "commit"}
           <=> x.at \in {"create", "width", "commit"},
         x.at = "commit" => x.made \/ table = x.width,
         x.at \in BootSteps \cup {"serving"} => table = x.width,
         x.at = "indexUser" => account # NoAccount,
         x.at \in {"print", "serving"} => indexed
  PROVE  StartupInv'
<1>1. inst'[i] = x
  BY OfInstance
<1>2. InstanceInv(i)'
  BY <1>1, OfInstance
  DEF InstanceInv, Started, Locks, Makes, Fits, Closes, Boots, adminVars, WidthFits
<1>3. QED
  BY <1>2, OwnStep, OfInstance

\* The transaction of i ends: it is rolled back, and its lock is free again.
LEMMA RollbackKeeps ==
  ASSUME StartupInv, NEW i \in Instances,
         UNCHANGED <<adminVars, starts, table>>,
         lock' = LockReleased(i),
         NEW x \in Instance, inst' = [inst EXCEPT ![i] = x],
         \/ x = Down
         \/ /\ x.at = "closing" /\ ~ x.made /\ inst[i].at # "down"
            /\ x.width = inst[i].width /\ x.temporary = inst[i].temporary
  PROVE  StartupInv'
<1>1. inst'[i] = x
  BY OfInstance
<1>2. lock' # i /\ (lock' = lock \/ (lock = i /\ lock' = Nobody))
  BY OfInstance DEF LockReleased
<1>3. InstanceInv(i)'
  <2>1. x.at \in {"down", "closing"} /\ ~ x.made /\ (x.at = "down" => ~ x.pool)
    BY DEF Down
  <2>2. x.at # "down" => x.width \in Widths /\ x.temporary \in 1..MaxStarts
    BY OfInstance DEF InstanceInv, Started, Down
  <2>3. QED
    BY <1>1, <1>2, <2>1, <2>2
    DEF InstanceInv, Started, Locks, Makes, Fits, Closes, Boots, BootSteps, WidthFits
<1>4. QED
  BY <1>2, <1>3, OwnStep, OfInstance

LEMMA MovesKeep ==
  ASSUME StartupInv, NEW i \in Instances,
         \/ PoolOpened(i) \/ PoolFails(i) \/ TableEnsured(i) \/ WidthChecked(i)
         \/ ConfigRead(i) \/ AnyExists(i) \/ Stop(i)
  PROVE  StartupInv'
<1> USE DEF Waits, Proceed, WidthFits
<1>0. /\ InstanceInv(i) /\ inst[i] \in Instance /\ inst \in [Instances -> Instance]
      /\ table \in Widths \cup {NoTable}
  BY OfInstance
<1> USE DEF Instance, InstanceSteps, Starting, SchemaSteps, BootSteps
<1>1. CASE PoolOpened(i)
  <2> DEFINE x == [inst[i] EXCEPT !.at = "lock", !.pool = TRUE]
  <2>1. inst' = [inst EXCEPT ![i] = x] /\ x \in Instance
    BY <1>0, <1>1 DEF PoolOpened
  <2>2. QED
    BY <1>0, <1>1, <2>1, MoveKeeps DEF PoolOpened, InstanceInv, Makes
<1>2. CASE PoolFails(i)
  <2> DEFINE x == [inst[i] EXCEPT !.at = "closing", !.pool = TRUE]
  <2>1. inst' = [inst EXCEPT ![i] = x] /\ x \in Instance
    BY <1>0, <1>2 DEF PoolFails
  <2>2. QED
    BY <1>0, <1>2, <2>1, MoveKeeps DEF PoolFails, InstanceInv, Makes
<1>3. CASE TableEnsured(i)
  <2> DEFINE x == [inst[i] EXCEPT !.at = "width", !.made = table = NoTable]
  <2>1. inst' = [inst EXCEPT ![i] = x] /\ x \in Instance
    BY <1>0, <1>3 DEF TableEnsured
  <2>2. QED
    BY <1>0, <1>3, <2>1, MoveKeeps DEF TableEnsured
<1>4. CASE WidthChecked(i)
  <2> DEFINE x == [inst[i] EXCEPT !.at = "commit"]
  <2>1. inst' = [inst EXCEPT ![i] = x] /\ x \in Instance
    BY <1>0, <1>4 DEF WidthChecked
  <2>2. QED
    BY <1>0, <1>4, <2>1, MoveKeeps DEF WidthChecked, InstanceInv, Makes
<1>5. CASE ConfigRead(i)
  <2> DEFINE x == [inst[i] EXCEPT !.at = "anyExists"]
  <2>1. inst' = [inst EXCEPT ![i] = x] /\ x \in Instance
    BY <1>0, <1>5 DEF ConfigRead
  <2>2. QED
    BY <1>0, <1>5, <2>1, MoveKeeps DEF ConfigRead, InstanceInv, Makes, Fits
<1>6. CASE AnyExists(i)
  <2> DEFINE x == [inst[i] EXCEPT !.at = IF indexed THEN "serving" ELSE "setUser"]
  <2>1. inst' = [inst EXCEPT ![i] = x] /\ x \in Instance
    BY <1>0, <1>6 DEF AnyExists
  <2>2. QED
    BY <1>0, <1>6, <2>1, MoveKeeps DEF AnyExists, InstanceInv, Makes, Fits
<1>7. CASE Stop(i)
  <2> DEFINE x == [inst[i] EXCEPT !.at = "closing"]
  <2>1. inst' = [inst EXCEPT ![i] = x] /\ x \in Instance
    BY <1>0, <1>7 DEF Stop
  <2>2. QED
    BY <1>0, <1>7, <2>1, MoveKeeps DEF Stop, InstanceInv, Makes
<1>8. QED
  BY <1>1, <1>2, <1>3, <1>4, <1>5, <1>6, <1>7

\* The schema's transaction begins and ends.
LEMMA SchemaKeeps ==
  ASSUME StartupInv, NEW i \in Instances, LockTaken(i) \/ SchemaCommitted(i)
  PROVE  StartupInv'
<1>0. /\ InstanceInv(i) /\ inst[i] \in Instance /\ inst \in [Instances -> Instance]
      /\ table \in Widths \cup {NoTable} /\ starts \in 0..MaxStarts
      /\ i # Nobody
  BY OfInstance
<1>1. CASE LockTaken(i)
  <2>1. PICK x \in Instance : x = [inst[i] EXCEPT !.at = "create"]
    BY <1>0 DEF Instance, InstanceSteps, Starting, SchemaSteps
  <2>2. /\ inst' = [inst EXCEPT ![i] = x] /\ inst'[i] = x
        /\ lock = Nobody /\ lock' = i
        /\ UNCHANGED <<adminVars, starts, table>>
    BY <1>0, <1>1, <2>1 DEF LockTaken, LockFree, Proceed, Waits
  <2>3. /\ x.at = "create" /\ inst[i].at = "lock" /\ x.made = inst[i].made
        /\ x.width = inst[i].width /\ x.temporary = inst[i].temporary
    BY <1>0, <1>1, <2>1 DEF LockTaken, Waits, Instance
  <2>4. InstanceInv(i)'
    BY <1>0, <2>2, <2>3
    DEF InstanceInv, Started, Locks, Makes, Fits, Closes, Boots, BootSteps, WidthFits
  <2>5. QED
    BY <1>0, <2>2, <2>4, OwnStep
<1>2. CASE SchemaCommitted(i)
  <2>1. PICK x \in Instance : x = [inst[i] EXCEPT !.at = "config", !.made = FALSE]
    BY <1>0 DEF Instance, InstanceSteps, Starting, BootSteps
  <2>2. /\ inst' = [inst EXCEPT ![i] = x] /\ inst'[i] = x
        /\ inst[i].at = "commit"
        /\ table' = IF inst[i].made THEN inst[i].width ELSE table
        /\ UNCHANGED <<adminVars, starts>>
    BY <1>0, <1>2, <2>1 DEF SchemaCommitted, Waits
  <2>3. lock = i /\ lock' = Nobody
    BY <1>0, <1>2, <2>2 DEF SchemaCommitted, LockReleased, InstanceInv, Locks
  <2>4. /\ x.at = "config" /\ ~ x.made
        /\ x.width = inst[i].width /\ x.temporary = inst[i].temporary
    BY <1>0, <2>1 DEF Instance
  <2>5. /\ table' = x.width
        /\ table' = table \/ table = NoTable
        /\ table' \in Widths \cup {NoTable}
    BY <1>0, <2>2, <2>4
    DEF InstanceInv, Fits, Makes, Started, WidthFits, BootSteps
  <2>6. InstanceInv(i)'
    BY <1>0, <2>2, <2>3, <2>4, <2>5
    DEF InstanceInv, Started, Locks, Makes, Fits, Closes, Boots, BootSteps, WidthFits
  <2>7. QED
    BY <1>0, <2>2, <2>3, <2>5, <2>6, OwnStep
<1>3. QED
  BY <1>1, <1>2

\* A start that ends, and an instance that goes down.
LEMMA EndsKeep ==
  ASSUME StartupInv, NEW i \in Instances,
         \/ WidthRefused(i) \/ SchemaFails(i) \/ BootFails(i)
         \/ Killed(i) \/ Closed(i)
  PROVE  StartupInv'
<1>0. /\ InstanceInv(i) /\ inst[i] \in Instance /\ inst \in [Instances -> Instance]
      /\ i # Nobody /\ Down \in Instance
  BY OfInstance, AdminAssumption DEF Down, Instance, InstanceSteps
<1>1. CASE WidthRefused(i) \/ SchemaFails(i) \/ BootFails(i)
  <2>1. PICK x \in Instance : x = [inst[i] EXCEPT !.at = "closing", !.made = FALSE]
    BY <1>0 DEF Instance, InstanceSteps
  <2>2. /\ inst' = [inst EXCEPT ![i] = x] /\ inst[i].at # "down"
        /\ lock' = LockReleased(i)
        /\ UNCHANGED <<adminVars, starts, table>>
    BY <1>0, <1>1, <2>1
    DEF WidthRefused, SchemaFails, BootFails, LifespanEnds, Waits, SchemaSteps, BootSteps
  <2>3. /\ x.at = "closing" /\ ~ x.made
        /\ x.width = inst[i].width /\ x.temporary = inst[i].temporary
    BY <1>0, <2>1 DEF Instance
  <2>4. QED
    BY <2>2, <2>3, RollbackKeeps
<1>2. CASE Killed(i)
  BY <1>0, <1>2, RollbackKeeps DEF Killed
<1>3. CASE Closed(i)
  <2>1. lock # i
    BY <1>0, <1>3 DEF InstanceInv, Locks, Closed, Waits
  <2>2. QED
    BY <1>0, <1>3, <2>1, RollbackKeeps DEF Closed, LockReleased
<1>4. QED
  BY <1>1, <1>2, <1>3

-----------------------------------------------------------------------------
(***************************************************************************)
(* Steps that write the account.                                           *)
(***************************************************************************)

\* A step of i in the bootstrap, whatever it does to the account.
LEMMA BootKeeps ==
  ASSUME StartupInv, NEW i \in Instances,
         UserSet(i) \/ UserIndexed(i) \/ PasswordPrinted(i)
  PROVE  StartupInv'
<1>0. /\ InstanceInv(i) /\ inst[i] \in Instance /\ inst \in [Instances -> Instance]
      /\ i # Nobody /\ AccountThere /\ FormsTyped
      /\ starts \in 0..MaxStarts /\ table \in Widths \cup {NoTable}
      /\ lock \in Instances \cup {Nobody} /\ AdminTypeOK
  BY OfInstance DEF StartupInv, TypeOK
<1>1. /\ inst[i].at \in {"setUser", "indexUser", "print"}
      /\ inst[i].width \in Widths /\ inst[i].temporary \in Temporary
      /\ table = inst[i].width /\ lock # i /\ ~ inst[i].made
      /\ inst[i].at = "indexUser" => account # NoAccount
      /\ inst[i].at = "print" => indexed
  BY <1>0
  DEF UserSet, UserIndexed, PasswordPrinted, Waits, InstanceInv, Started, Fits,
      Locks, Makes, Boots, BootSteps, Temporary
<1>2. /\ UNCHANGED <<sessions, config, request, starts, lock, table>>
      /\ \/ account' = account
         \/ account' = [password |-> inst[i].temporary, mustChange |-> TRUE]
      /\ indexed' = indexed \/ indexed' = TRUE
      /\ printed' = printed \/ printed' = printed \cup {inst[i].temporary}
  BY <1>1
  DEF UserSet, UserIndexed, PasswordPrinted
<1>3. account' \in Account \cup {NoAccount} /\ (account # NoAccount => account' # NoAccount)
  <2>1. [password |-> inst[i].temporary, mustChange |-> TRUE] \in Account
    BY <1>1 DEF Account, Passwords
  <2>2. QED
    BY <1>0, <1>2, <2>1, StartupAssumption DEF AdminTypeOK
<1>4. AdminTypeOK'
  BY <1>0, <1>1, <1>2, <1>3 DEF AdminTypeOK
<1>5. indexed' => account' # NoAccount
  BY <1>0, <1>1, <1>2, <1>3
  DEF UserSet, UserIndexed, PasswordPrinted, AccountThere, Waits
<1>6. FormsTyped' /\ AccountThere'
  BY <1>2, <1>3, <1>5, RequestsKeep
<1>7. PICK x \in Instance :
        /\ inst' = [inst EXCEPT ![i] = x]
        /\ x.width = inst[i].width /\ x.temporary = inst[i].temporary /\ ~ x.made
        /\ x.at \in {"indexUser", "print", "serving"}
        /\ x.at = "indexUser" => account' # NoAccount
        /\ x.at \in {"print", "serving"} => indexed'
  <2>1. CASE UserSet(i)
    <3>1. [inst[i] EXCEPT !.at = "indexUser"] \in Instance
      BY <1>0 DEF Instance, InstanceSteps, Starting, BootSteps
    <3>2. account' # NoAccount
      <4>1. [password |-> inst[i].temporary, mustChange |-> TRUE] \in Account
        BY <1>1 DEF Account, Passwords
      <4>2. QED
        BY <2>1, <4>1, StartupAssumption DEF UserSet
    <3>3. QED
      BY <1>0, <1>1, <2>1, <3>1, <3>2 DEF UserSet, Proceed, Instance
  <2>2. CASE UserIndexed(i)
    <3>1. [inst[i] EXCEPT !.at = "print"] \in Instance
      BY <1>0 DEF Instance, InstanceSteps, Starting, BootSteps
    <3>2. QED
      BY <1>0, <1>1, <2>2, <3>1 DEF UserIndexed, Proceed, Instance
  <2>3. CASE PasswordPrinted(i)
    <3>1. [inst[i] EXCEPT !.at = "serving"] \in Instance
      BY <1>0 DEF Instance, InstanceSteps
    <3>2. inst[i].at = "print" /\ UNCHANGED indexed
      BY <2>3 DEF PasswordPrinted, Waits
    <3>3. indexed'
      BY Zenon, <1>1, <3>2
    <3>4. QED
      BY <1>0, <1>1, <2>3, <3>1, <3>3 DEF PasswordPrinted, Proceed, Instance
  <2>4. QED
    BY <2>1, <2>2, <2>3
<1>8. /\ inst'[i] = x /\ inst' \in [Instances -> Instance]
      /\ \A j \in Instances \ {i} : inst'[j] = inst[j]
  BY <1>7, InstanceTyped
<1>9. InstanceInv(i)'
  BY <1>0, <1>1, <1>2, <1>7, <1>8
  DEF InstanceInv, Started, Locks, Makes, Fits, Closes, Boots, BootSteps,
      WidthFits, Temporary
<1>10. \A j \in Instances : InstanceInv(j)'
  <2> SUFFICES ASSUME NEW j \in Instances, j # i PROVE InstanceInv(j)'
    BY <1>9
  <2>1. QED
    BY <1>2, <1>3, <1>8, OthersKeep
<1>11. TypeOK'
  BY <1>0, <1>2, <1>4, <1>8 DEF TypeOK
<1>12. QED
  BY <1>6, <1>10, <1>11 DEF StartupInv

\* A step of a client leaves the instances alone; what it asks of the account is
\* that it is not removed.
LEMMA ClientStep ==
  ASSUME StartupInv, UNCHANGED startVars,
         AdminTypeOK', FormsTyped', AccountThere',
         indexed => indexed',
         account # NoAccount => account' # NoAccount
  PROVE  StartupInv'
<1>1. \A i \in Instances : InstanceInv(i)'
  <2> SUFFICES ASSUME NEW i \in Instances PROVE InstanceInv(i)'
    OBVIOUS
  <2>1. QED
    BY DEF startVars, StartupInv, InstanceInv, Started, Locks, Makes, Fits,
           Closes, Boots, WidthFits
<1>2. TypeOK'
  BY DEF startVars, StartupInv, TypeOK
<1>3. QED
  BY <1>1, <1>2 DEF StartupInv

\* The request of c becomes r, and nothing else that the invariant speaks of.
LEMMA RequestStep ==
  ASSUME StartupInv, UNCHANGED <<startVars, account, indexed, printed>>,
         sessions' \subseteq Clients, config' \in Configs,
         NEW c \in Clients, NEW r \in Request,
         request' = [request EXCEPT ![c] = r],
         r.at \in {"password", "rotate"} => r.form \in Chosen,
         r.at \in {"save", "saveRotated", "savePut"} =>
           r.form \in Credentials \cup {NoCredential},
         r.at = "reindex" => account # NoAccount
  PROVE  StartupInv'
<1>1. AdminTypeOK /\ FormsTyped /\ AccountThere
  BY DEF StartupInv, TypeOK
<1>2. request' \in [Clients -> Request]
      /\ \A d \in Clients : request'[d] = IF d = c THEN r ELSE request[d]
  BY <1>1 DEF AdminTypeOK
<1>3. AdminTypeOK' /\ FormsTyped' /\ AccountThere'
  BY <1>1, <1>2 DEF AdminTypeOK, FormsTyped, AccountThere
<1>4. QED
  BY <1>3, ClientStep

LEMMA OfClient ==
  ASSUME StartupInv, NEW c \in Clients
  PROVE  /\ request \in [Clients -> Request] /\ request[c] \in Request
         /\ sessions \subseteq Clients /\ config \in Configs
         /\ request[c].at \in {"password", "rotate"} => request[c].form \in Chosen
         /\ request[c].at \in {"save", "saveRotated", "savePut"} =>
              request[c].form \in Credentials \cup {NoCredential}
         /\ request[c].at = "reindex" => account # NoAccount
BY DEF StartupInv, TypeOK, AdminTypeOK, FormsTyped, AccountThere

LEMMA IdleTyped == Idle \in Request /\ Idle.at = "idle"
BY DEF Idle, Request, RequestSteps, Configs

\* Steps that end the request or move it on.
LEMMA HandlersKeep ==
  ASSUME StartupInv, NEW c \in Clients, UNCHANGED startVars,
         \/ LoginVerified(c) \/ LoginCreated(c) \/ PasswordVerified(c)
         \/ PasswordRefused(c) \/ Admitted(c) \/ Redirected(c) \/ SaveRead(c)
         \/ SavePut(c) \/ ConfigDeleted(c) \/ RequestFails(c)
  PROVE  StartupInv'
<1> USE DEF At, Goto, Answer
<1>0. /\ request \in [Clients -> Request] /\ request[c] \in Request
      /\ sessions \subseteq Clients /\ config \in Configs
      /\ request[c].at \in {"password", "rotate"} => request[c].form \in Chosen
      /\ request[c].at \in {"save", "saveRotated", "savePut"} =>
           request[c].form \in Credentials \cup {NoCredential}
  BY OfClient
<1>1. CASE PasswordRefused(c) \/ Redirected(c) \/ RequestFails(c)
  BY <1>0, <1>1, IdleTyped, RequestStep DEF PasswordRefused, Redirected, RequestFails
<1>2. CASE LoginCreated(c) \/ ConfigDeleted(c)
  BY <1>0, <1>2, IdleTyped, RequestStep DEF LoginCreated, ConfigDeleted, Configs
<1>3. CASE SavePut(c)
  <2>1. config' \in Configs
    BY <1>0, <1>3 DEF SavePut, StoredCredential, Configs, Request
  <2>2. QED
    BY <1>0, <1>3, <2>1, IdleTyped, RequestStep DEF SavePut
<1>4. CASE LoginVerified(c) \/ PasswordVerified(c) \/ Admitted(c)
  <2>1. PICK s \in {"login", "rotate", "saveRotated", "deleteRotated"} :
          /\ request' = [request EXCEPT ![c].at = s]
          /\ s = "rotate" => request[c].at = "password"
          /\ s = "saveRotated" => request[c].at = "save"
          /\ UNCHANGED <<account, indexed, printed, sessions, config>>
    BY <1>4 DEF LoginVerified, PasswordVerified, Admitted
  <2>2. PICK r \in Request : r = [request[c] EXCEPT !.at = s]
    BY <1>0 DEF Request, RequestSteps
  <2>3. r.at = s /\ r.form = request[c].form
    BY <1>0, <2>2 DEF Request
  <2>4. request' = [request EXCEPT ![c] = r]
    BY <1>0, <2>1, <2>2
  <2>5. QED
    BY <1>0, <2>1, <2>3, <2>4, RequestStep
<1>5. CASE SaveRead(c)
  <2>1. PICK r \in Request : r = [request[c] EXCEPT !.at = "savePut", !.read = config]
    BY <1>0 DEF Request, RequestSteps
  <2>2. r.at = "savePut" /\ r.form = request[c].form
    BY <1>0, <2>1 DEF Request
  <2>3. request' = [request EXCEPT ![c] = r]
    BY <1>0, <1>5, <2>1 DEF SaveRead
  <2>4. QED
    BY <1>0, <1>5, <2>2, <2>3, RequestStep DEF SaveRead
<1>6. QED
  BY <1>1, <1>2, <1>3, <1>4, <1>5

\* A request of a kind is sent.
LEMMA SubmitKeeps ==
  ASSUME StartupInv, NEW c \in Clients, UNCHANGED startVars,
         NEW step \in {"password", "save", "delete"},
         NEW form \in Chosen \cup Credentials \cup {NoCredential},
         step = "password" => form \in Chosen,
         step = "save" => form \in Credentials \cup {NoCredential},
         Submit(c, step, form)
  PROVE  StartupInv'
<1>1. request \in [Clients -> Request] /\ request[c] \in Request
      /\ sessions \subseteq Clients /\ config \in Configs
  BY OfClient
<1>2. PICK r \in Request : r = [request[c] EXCEPT !.at = step, !.form = form]
  BY <1>1 DEF Request, RequestSteps
<1>3. r.at = step /\ r.form = form /\ request' = [request EXCEPT ![c] = r]
  BY <1>1, <1>2 DEF Request, Submit
<1>4. QED
  BY <1>1, <1>3, RequestStep DEF Submit

\* The two writes of a rotation.
LEMMA RotationKeeps ==
  ASSUME StartupInv, NEW c \in Clients, UNCHANGED startVars,
         PasswordPut(c) \/ PasswordIndexed(c)
  PROVE  StartupInv'
<1>0. /\ request \in [Clients -> Request] /\ request[c] \in Request
      /\ AdminTypeOK /\ FormsTyped /\ AccountThere
      /\ request[c].at = "rotate" => request[c].form \in Chosen
      /\ request[c].at = "reindex" => account # NoAccount
  BY OfClient DEF StartupInv, TypeOK
<1>1. CASE PasswordPut(c)
  <2>1. account' \in Account
    BY <1>0, <1>1 DEF PasswordPut, At, RotatedAccount, Account, Passwords
  <2>2. account' # NoAccount
    BY <2>1, StartupAssumption
  <2>3. PICK r \in Request : r = [request[c] EXCEPT !.at = "reindex"]
    BY <1>0 DEF Request, RequestSteps
  <2>4. r.at = "reindex" /\ request' = [request EXCEPT ![c] = r]
    BY <1>0, <1>1, <2>3 DEF Request, PasswordPut, Goto
  <2>5. request' \in [Clients -> Request]
        /\ \A d \in Clients : request'[d] = IF d = c THEN r ELSE request[d]
    BY <1>0, <2>4
  <2>6. AdminTypeOK' /\ FormsTyped' /\ AccountThere'
    BY <1>0, <1>1, <2>1, <2>2, <2>4, <2>5
    DEF PasswordPut, AdminTypeOK, FormsTyped, AccountThere
  <2>7. QED
    BY <1>1, <2>2, <2>6, ClientStep DEF PasswordPut
<1>2. CASE PasswordIndexed(c)
  <2>1. account # NoAccount
    BY <1>0, <1>2 DEF PasswordIndexed, At
  <2>2. request' \in [Clients -> Request]
        /\ \A d \in Clients : request'[d] = IF d = c THEN Idle ELSE request[d]
    BY <1>0, <1>2, IdleTyped DEF PasswordIndexed, Answer
  <2>3. AdminTypeOK' /\ FormsTyped' /\ AccountThere'
    BY <1>0, <1>2, <2>1, <2>2, IdleTyped
    DEF PasswordIndexed, AdminTypeOK, FormsTyped, AccountThere
  <2>4. QED
    BY <1>2, <2>1, <2>3, ClientStep DEF PasswordIndexed
<1>3. QED
  BY <1>1, <1>2

LEMMA SessionEndsKeeps ==
  ASSUME StartupInv, NEW c \in Clients, UNCHANGED startVars, SessionEnds(c)
  PROVE  StartupInv'
<1>1. AdminTypeOK /\ FormsTyped /\ AccountThere
  BY DEF StartupInv, TypeOK
<1>2. AdminTypeOK' /\ FormsTyped' /\ AccountThere'
  BY <1>1 DEF SessionEnds, AdminTypeOK, FormsTyped, AccountThere
<1>3. QED
  BY <1>2, ClientStep DEF SessionEnds

-----------------------------------------------------------------------------
LEMMA StartupStep == StartupInv /\ [Next]_vars => StartupInv'
<1> SUFFICES ASSUME StartupInv, [Next]_vars PROVE StartupInv'
  OBVIOUS
<1>1. CASE \E i \in Instances : Progress(i) \/ Environment(i)
  <2>1. PICK i \in Instances : Progress(i) \/ Environment(i)
    BY <1>1
  <2>2. QED
    BY <2>1, StartKeeps, MovesKeep, SchemaKeeps, EndsKeep, BootKeeps
    DEF Progress, Environment
<1>2. CASE Served
  <2>1. PICK c \in Clients : AdminStep(c)
    BY <1>2 DEF Served
  <2>2. UNCHANGED startVars
    BY <1>2 DEF Served
  <2>3. CASE Authentication(c)
    BY <2>2, <2>3, HandlersKeep, SessionEndsKeeps DEF Authentication
  <2>4. CASE Rotation(c)
    BY <2>2, <2>4, HandlersKeep, SubmitKeeps, RotationKeeps DEF Rotation
  <2>5. CASE Configuration(c)
    BY <2>2, <2>5, HandlersKeep, SubmitKeeps DEF Configuration
  <2>6. QED
    BY <2>1, <2>3, <2>4, <2>5 DEF AdminStep
<1>3. CASE Dropped
  BY <1>3, HandlersKeep DEF Dropped
<1>4. CASE UNCHANGED vars
  <2>1. AdminTypeOK' /\ FormsTyped' /\ AccountThere'
    BY <1>4
    DEF vars, adminVars, StartupInv, TypeOK, AdminTypeOK, FormsTyped, AccountThere
  <2>2. QED
    BY <1>4, <2>1, ClientStep DEF vars, adminVars
<1>5. QED
  BY <1>1, <1>2, <1>3, <1>4 DEF Next

\* The invariant holds whatever starts, serves, fails or dies.
THEOREM StartupInvariant == Spec => []StartupInv
<1>1. QED
  BY InitStartup, StartupStep, PTL DEF Spec

\* Every state is well typed.
THEOREM StartupTyped == Spec => []TypeOK
<1>1. StartupInv => TypeOK
  BY DEF StartupInv
<1>2. QED
  BY StartupInvariant, <1>1, PTL

\* While an instance has made the table and not committed it, no other has.
THEOREM OneTableIsMade == Spec => []TableMadeOnce
<1>1. StartupInv => TableMadeOnce
  BY DEF StartupInv, TableMadeOnce, InstanceInv, Makes, Locks
<1>2. QED
  BY StartupInvariant, <1>1, PTL

\* A serving instance has a table of its own width and an administrator.
THEOREM ServingIsReady == Spec => []ServingMeansReady
<1>1. StartupInv => ServingMeansReady
  BY DEF StartupInv, ServingMeansReady, InstanceInv, Fits, Boots, AccountThere, Waits
<1>2. QED
  BY StartupInvariant, <1>1, PTL

\* However a start ends, its pool is closed and its lock is free.
THEOREM NothingStaysOpen == Spec => []NothingIsLeftOpen
<1>1. StartupInv => NothingIsLeftOpen
  BY DEF StartupInv, NothingIsLeftOpen, InstanceInv, Closes, Locks, Waits, SchemaSteps
<1>2. QED
  BY StartupInvariant, <1>1, PTL

-----------------------------------------------------------------------------
(***************************************************************************)
(* The configuration of a connector.                                       *)
(***************************************************************************)

\* While a save is between its read and its write, no other request is about to
\* write the configuration: the code does not see to that (config_save
\* and config_delete take no lock), its administrators do.
OneSaveAtATime ==
  \A c, d \in Clients :
    At(c, "savePut") /\ request[d].at \in {"savePut", "deleteRotated"} => c = d

\* What a save has read of the store is still stored.
ReadIsStored == \A c \in Clients : At(c, "savePut") => request[c].read = config

\* A step of one client where another is left between its read and its write.
LEMMA OthersDoNotWrite ==
  ASSUME StartupInv, OneSaveAtATime, NEW c \in Clients, NEW d \in Clients, c # d,
         AdminStep(d), At(c, "savePut")'
  PROVE  At(c, "savePut") /\ request'[c] = request[c] /\ config' = config
<1>1. request \in [Clients -> Request]
  BY DEF StartupInv, TypeOK, AdminTypeOK
<1>2. PICK q : request' = [request EXCEPT ![d] = q]
  <2>1. CASE SessionEnds(d)
    BY <1>1, <2>1 DEF SessionEnds
  <2>2. CASE ~ SessionEnds(d)
    BY <2>2
    DEF AdminStep, Authentication, Rotation, Configuration, LoginVerified,
        LoginCreated, Submit, PasswordVerified, PasswordRefused, PasswordPut,
        PasswordIndexed, Admitted, Redirected, SaveRead, SavePut, ConfigDeleted,
        Goto, Answer
  <2>3. QED
    BY <2>1, <2>2
<1>3. request'[c] = request[c]
  BY <1>1, <1>2
<1>4. At(c, "savePut") /\ ~ At(d, "savePut") /\ ~ At(d, "deleteRotated")
  BY <1>3 DEF At, OneSaveAtATime
<1>5. config' = config
  BY <1>4
  DEF AdminStep, Authentication, Rotation, Configuration, LoginVerified,
      LoginCreated, SessionEnds, Submit, PasswordVerified, PasswordRefused,
      PasswordPut, PasswordIndexed, Admitted, Redirected, SaveRead, SavePut,
      ConfigDeleted
<1>6. QED
  BY <1>3, <1>4, <1>5

LEMMA ReadStaysStored ==
  ASSUME StartupInv, ReadIsStored, OneSaveAtATime, [Next]_vars
  PROVE  ReadIsStored'
<1> SUFFICES ASSUME NEW c \in Clients, At(c, "savePut")'
             PROVE  request'[c].read = config'
  BY DEF ReadIsStored
<1> USE DEF At
<1>1. request \in [Clients -> Request]
  BY DEF StartupInv, TypeOK, AdminTypeOK
<1>2. CASE \E i \in Instances : Progress(i) \/ Environment(i)
  BY <1>2
  DEF Progress, Environment, PoolOpened, LockTaken, TableEnsured, WidthChecked,
      WidthRefused, SchemaCommitted, ConfigRead, AnyExists, UserSet, UserIndexed,
      PasswordPrinted, Closed, Start, Stop, PoolFails, SchemaFails, BootFails,
      Killed, adminVars, ReadIsStored
<1>3. CASE Served
  <2>1. PICK d \in Clients : AdminStep(d)
    BY <1>3 DEF Served
  <2>2. CASE d # c
    BY <2>1, <2>2, OthersDoNotWrite DEF ReadIsStored
  <2>3. CASE d = c
    <3>1. AdminStep(c)
      BY <2>1, <2>3
    <3> USE DEF Request, Goto, Answer, Idle, ReadIsStored
    <3>2. CASE Authentication(c)
      BY <1>1, <3>2
      DEF Authentication, LoginVerified, LoginCreated, SessionEnds
    <3>3. CASE Rotation(c)
      BY <1>1, <3>3
      DEF Rotation, Submit, PasswordVerified, PasswordRefused, PasswordPut,
          PasswordIndexed
    <3>4. CASE Configuration(c)
      BY <1>1, <3>4
      DEF Configuration, Submit, Admitted, Redirected, SaveRead, SavePut, ConfigDeleted
    <3>5. QED
      BY <3>1, <3>2, <3>3, <3>4 DEF AdminStep
  <2>4. QED
    BY <2>2, <2>3
<1>4. CASE Dropped
  <2>1. PICK d \in Clients : RequestFails(d)
    BY <1>4 DEF Dropped
  <2>2. request'[c] = IF c = d THEN Idle ELSE request[c]
    BY <1>1, <2>1 DEF RequestFails, Answer
  <2>3. c # d /\ config' = config
    BY <2>1, <2>2 DEF RequestFails, Idle
  <2>4. QED
    BY <2>2, <2>3 DEF ReadIsStored
<1>5. CASE UNCHANGED vars
  BY <1>5 DEF vars, adminVars, ReadIsStored
<1>6. QED
  BY <1>2, <1>3, <1>4, <1>5 DEF Next

LEMMA BlankWriteKeeps ==
  ASSUME StartupInv, ReadIsStored, OneSaveAtATime, [Next]_vars,
         NEW c \in Clients, At(c, "savePut"),
         request[c].form = NoCredential, config # NoConfig
  PROVE  config' = config
<1>1. CASE \E i \in Instances : Progress(i) \/ Environment(i)
  BY <1>1
  DEF Progress, Environment, PoolOpened, LockTaken, TableEnsured, WidthChecked,
      WidthRefused, SchemaCommitted, ConfigRead, AnyExists, UserSet, UserIndexed,
      PasswordPrinted, Closed, Start, Stop, PoolFails, SchemaFails, BootFails,
      Killed, adminVars
<1>2. CASE Served
  <2>1. PICK d \in Clients : AdminStep(d)
    BY <1>2 DEF Served
  <2>2. CASE SavePut(d)
    <3>1. d = c
      BY <2>2 DEF SavePut, OneSaveAtATime, At
    <3>2. QED
      BY <2>2, <3>1 DEF SavePut, StoredCredential, ReadIsStored
  <2>3. CASE ConfigDeleted(d)
    <3>1. d = c
      BY <2>3 DEF ConfigDeleted, OneSaveAtATime, At
    <3>2. QED
      BY <2>3, <3>1 DEF ConfigDeleted, At
  <2>4. CASE ~ SavePut(d) /\ ~ ConfigDeleted(d)
    BY <2>1, <2>4
    DEF AdminStep, Authentication, Rotation, Configuration, LoginVerified,
        LoginCreated, SessionEnds, Submit, PasswordVerified, PasswordRefused,
        PasswordPut, PasswordIndexed, Admitted, Redirected, SaveRead
  <2>5. QED
    BY <2>2, <2>3, <2>4
<1>3. CASE Dropped
  BY <1>3 DEF Dropped, RequestFails
<1>4. CASE UNCHANGED vars
  BY <1>4 DEF vars, adminVars
<1>5. QED
  BY <1>1, <1>2, <1>3, <1>4 DEF Next

\* However many administrators there are, a save with a blank credential keeps
\* the stored one as long as no other request writes the configuration between
\* the save's read and its write (save_connector).
THEOREM BlankFieldKeeps == Spec /\ []OneSaveAtATime => BlankKeepsCredential
<1>1. Init => ReadIsStored
  BY DEF Init, AdminInit, ReadIsStored, At, Idle
<1>2. StartupInv /\ ReadIsStored /\ OneSaveAtATime /\ [Next]_vars => ReadIsStored'
  BY ReadStaysStored
<1>3. Spec /\ []OneSaveAtATime => []ReadIsStored
  BY <1>1, <1>2, StartupInvariant, PTL DEF Spec
<1>4. StartupInv /\ ReadIsStored /\ OneSaveAtATime /\ [Next]_vars =>
        \A c \in Clients :
          At(c, "savePut") /\ request[c].form = NoCredential /\ config # NoConfig
            => config' = config
  BY BlankWriteKeeps
<1>5. QED
  BY <1>3, <1>4, StartupInvariant, PTL DEF Spec, BlankKeepsCredential
-----------------------------------------------------------------------------
(***************************************************************************)
(* Whose password is the account's.                                        *)
(*                                                                         *)
(* bootstrap_admin looks for an account, writes one and prints its         *)
(* password in three separate awaits.  What follows says when that is      *)
(* enough for an administrator to get in: see the finding on AccountKnown  *)
(* for what breaks it.                                                     *)
(***************************************************************************)

\* Steps of instance i that leave the account as it is.
LeavesAccount(i) ==
  /\ UNCHANGED <<account, indexed, printed>>
  /\ inst'[i].at = "setUser" => ~ indexed
  /\ inst'[i].at \notin {"indexUser", "print"}
  /\ inst[i].at \in {"indexUser", "print"} => BootFails(i) \/ Killed(i)

LEMMA InstanceStep ==
  ASSUME StartupInv, NEW i \in Instances, Progress(i) \/ Environment(i)
  PROVE  /\ UNCHANGED <<sessions, config, request>>
         /\ \A j \in Instances \ {i} : inst'[j] = inst[j]
         /\ \/ LeavesAccount(i)
            \/ UserSet(i) \/ UserIndexed(i) \/ PasswordPrinted(i)
<1>0. inst[i] \in Instance /\ inst \in [Instances -> Instance]
  BY OfInstance
<1>1. UNCHANGED <<sessions, config, request>>
  BY DEF Progress, Environment, PoolOpened, LockTaken, TableEnsured, WidthChecked,
     WidthRefused, SchemaCommitted, ConfigRead, AnyExists, UserSet, UserIndexed,
     PasswordPrinted, Closed, Start, Stop, PoolFails, SchemaFails, BootFails,
     Killed, adminVars
<1>2. PICK x : inst' = [inst EXCEPT ![i] = x]
  BY DEF Progress, Environment, PoolOpened, LockTaken, TableEnsured, WidthChecked,
     WidthRefused, SchemaCommitted, ConfigRead, AnyExists, UserSet, UserIndexed,
     PasswordPrinted, Closed, Start, Stop, PoolFails, SchemaFails, BootFails,
     Killed, Proceed, LifespanEnds
<1>3. \A j \in Instances \ {i} : inst'[j] = inst[j]
  BY <1>0, <1>2
<1>4. ASSUME inst'[i].at \notin {"setUser", "indexUser", "print"},
             inst[i].at \notin {"indexUser", "print"}, UNCHANGED <<account, indexed, printed>>
      PROVE  LeavesAccount(i)
  BY <1>4 DEF LeavesAccount
<1>5. CASE PoolOpened(i) \/ LockTaken(i) \/ TableEnsured(i) \/ WidthChecked(i)
           \/ ConfigRead(i) \/ Stop(i) \/ PoolFails(i)
  <2>1. inst'[i].at \notin {"setUser", "indexUser", "print"}
    BY <1>0, <1>5
    DEF PoolOpened, LockTaken, TableEnsured, WidthChecked, ConfigRead, Stop,
        PoolFails, Proceed, Instance
  <2>2. inst[i].at \notin {"indexUser", "print"} /\ UNCHANGED <<account, indexed, printed>>
    BY <1>5
    DEF PoolOpened, LockTaken, TableEnsured, WidthChecked, ConfigRead, Stop,
        PoolFails, Waits, adminVars
  <2>3. QED
    BY <1>1, <1>3, <1>4, <2>1, <2>2
<1>6. CASE WidthRefused(i) \/ SchemaFails(i) \/ SchemaCommitted(i)
  <2>1. inst'[i].at \notin {"setUser", "indexUser", "print"}
    BY <1>0, <1>6
    DEF WidthRefused, SchemaFails, SchemaCommitted, LifespanEnds, Instance
  <2>2. inst[i].at \notin {"indexUser", "print"} /\ UNCHANGED <<account, indexed, printed>>
    BY <1>6
    DEF WidthRefused, SchemaFails, SchemaCommitted, Waits, adminVars, SchemaSteps
  <2>3. QED
    BY <1>1, <1>3, <1>4, <2>1, <2>2
<1>7. CASE AnyExists(i)
  BY <1>0, <1>7
  DEF AnyExists, Waits, Proceed, Instance, LeavesAccount, adminVars
<1>8. CASE BootFails(i)
  BY <1>0, <1>8 DEF BootFails, LifespanEnds, Instance, LeavesAccount, adminVars
<1>9. CASE Closed(i)
  BY <1>0, <1>9 DEF Closed, Waits, Down, LeavesAccount, adminVars
<1>10. CASE Killed(i)
  BY <1>0, <1>10 DEF Killed, Down, LeavesAccount, adminVars
<1>11. CASE Start(i)
  <2>1. PICK n, w : inst' = [inst EXCEPT ![i] = [Down EXCEPT !.at = "pool", !.width = w,
                                                             !.temporary = n]]
    BY <1>11 DEF Start
  <2>2. [Down EXCEPT !.at = "pool", !.width = w, !.temporary = n].at = "pool"
    BY DEF Down
  <2>3. inst'[i].at = "pool"
    BY <1>0, <2>1, <2>2
  <2>4. inst[i].at \notin {"indexUser", "print"} /\ UNCHANGED <<account, indexed, printed>>
    BY <1>11 DEF Start, Waits, adminVars
  <2>5. QED
    BY <1>1, <1>3, <1>4, <2>3, <2>4
<1>12. QED
  BY <1>1, <1>3, <1>5, <1>6, <1>7, <1>8, <1>9, <1>10, <1>11
  DEF Progress, Environment

\* The instance that writes the account, and the one that prints its password.
LEMMA BootStep ==
  ASSUME StartupInv, NEW i \in Instances
  PROVE  /\ UserSet(i) =>
              /\ inst[i].at = "setUser" /\ inst'[i].at = "indexUser"
              /\ inst'[i].temporary = inst[i].temporary
              /\ account' = [password |-> inst[i].temporary, mustChange |-> TRUE]
              /\ UNCHANGED <<indexed, printed>>
         /\ UserIndexed(i) =>
              /\ inst[i].at = "indexUser" /\ inst'[i].at = "print"
              /\ inst'[i].temporary = inst[i].temporary
              /\ indexed' = TRUE /\ UNCHANGED <<account, printed>>
         /\ PasswordPrinted(i) =>
              /\ inst[i].at = "print" /\ inst'[i].at = "serving"
              /\ printed' = printed \cup {inst[i].temporary}
              /\ UNCHANGED <<account, indexed>>
BY OfInstance
DEF UserSet, UserIndexed, PasswordPrinted, Waits, Proceed, Instance

\* A step of the administrators: of the account they only change the password,
\* to one of their choice, and only over an instance that serves.
AccountStays == UNCHANGED <<account, indexed>>

LEMMA AdminsStep ==
  ASSUME StartupInv, Served \/ Dropped
  PROVE  /\ UNCHANGED <<inst, printed>>
         /\ \/ AccountStays
            \/ \E c \in Clients : Served /\ PasswordPut(c)
            \/ \E c \in Clients : Served /\ PasswordIndexed(c)
         /\ Served => indexed
         /\ \A c \in Clients : ~ At(c, "idle")' => ~ At(c, "idle") \/ Served
<1>1. UNCHANGED inst
  BY DEF Served, Dropped, startVars
<1>2. ASSUME NEW c \in Clients, RequestFails(c)
      PROVE  /\ AccountStays /\ UNCHANGED printed
             /\ \A d \in Clients : ~ At(d, "idle")' => ~ At(d, "idle")
  BY <1>2 DEF RequestFails, Answer, At, Idle, AccountStays, StartupInv, TypeOK,
     AdminTypeOK
<1>3. ASSUME NEW c \in Clients, AdminStep(c)
      PROVE  UNCHANGED printed /\ (AccountStays \/ PasswordPut(c) \/ PasswordIndexed(c))
  BY <1>3
  DEF AdminStep, Authentication, Rotation, Configuration, LoginVerified,
      LoginCreated, SessionEnds, Submit, PasswordVerified, PasswordRefused,
      PasswordPut, PasswordIndexed, Admitted, Redirected, SaveRead, SavePut,
      ConfigDeleted, AccountStays
<1>4. Served => indexed
  BY DEF Served, Waits, StartupInv, InstanceInv, Boots
<1>5. CASE Served
  BY <1>1, <1>3, <1>4, <1>5 DEF Served
<1>6. CASE Dropped
  BY <1>1, <1>2, <1>4, <1>6 DEF Dropped
<1>7. QED
  BY <1>5, <1>6
-----------------------------------------------------------------------------
(***************************************************************************)
(* While Redis answers and no instance dies.                               *)
(***************************************************************************)

\* The account has a password administrators know, or are about to be told.
AccountHeld ==
  account # NoAccount =>
    \/ account.password \in Known
    \/ \E i \in Instances : /\ inst[i].at \in {"indexUser", "print"}
                            /\ inst[i].temporary = account.password

LEMMA AccountHeldStep ==
  ASSUME "redis" \notin Faults, "kill" \notin Faults,
         StartupInv, AccountHeld, [Next]_vars
  PROVE  AccountHeld'
<1>1. CASE UNCHANGED vars
  BY <1>1 DEF vars, adminVars, startVars, AccountHeld, Known
<1>2. ASSUME NEW i \in Instances, Progress(i) \/ Environment(i)
      PROVE  AccountHeld'
  <2>1. \A j \in Instances \ {i} : inst'[j] = inst[j]
    BY <1>2, InstanceStep
  <2>2. CASE LeavesAccount(i)
    <3>1. inst[i].at \notin {"indexUser", "print"}
      BY <2>2 DEF LeavesAccount, BootFails, Killed
    <3>2. QED
      BY <2>1, <2>2, <3>1 DEF LeavesAccount, AccountHeld, Known
  <2>3. CASE UserSet(i)
    <3>1. /\ account' = [password |-> inst[i].temporary, mustChange |-> TRUE]
          /\ inst'[i].at = "indexUser" /\ inst'[i].temporary = inst[i].temporary
      BY <2>3, BootStep
    <3>2. account'.password = inst'[i].temporary
      BY <3>1
    <3>3. QED
      BY <3>1, <3>2 DEF AccountHeld
  <2>4. CASE UserIndexed(i)
    BY <2>1, <2>4, BootStep DEF AccountHeld, Known
  <2>5. CASE PasswordPrinted(i)
    BY <2>1, <2>5, BootStep DEF AccountHeld, Known
  <2>6. QED
    BY <1>2, <2>2, <2>3, <2>4, <2>5, InstanceStep
<1>3. CASE Served \/ Dropped
  <2>1. UNCHANGED <<inst, printed>>
    BY <1>3, AdminsStep
  <2>2. CASE UNCHANGED account
    BY <2>1, <2>2 DEF AccountHeld, Known
  <2>3. ASSUME NEW c \in Clients, PasswordPut(c)
        PROVE  AccountHeld'
    BY <2>3, OfClient DEF PasswordPut, At, RotatedAccount, AccountHeld, Known
  <2>4. QED
    BY <1>3, <2>2, <2>3, AdminsStep DEF AccountStays, PasswordIndexed
<1>4. QED
  BY <1>1, <1>2, <1>3 DEF Next

\* However many instances start at once, an account in the index has a password
\* that was printed or chosen, or is about to be printed, as long as Redis
\* answers and no instance is killed: the instance whose record stands last is
\* one that goes on to print it (bootstrap_admin).
THEOREM AccountIsKnown ==
  ASSUME "redis" \notin Faults, "kill" \notin Faults
  PROVE  Spec => []AccountKnown
<1>1. Init => AccountHeld
  BY DEF Init, AdminInit, AccountHeld
<1>2. StartupInv /\ AccountHeld /\ [Next]_vars => AccountHeld'
  BY AccountHeldStep
<1>3. StartupInv /\ AccountHeld => AccountKnown
  BY DEF StartupInv, AccountThere, AccountHeld, AccountKnown
<1>4. QED
  BY <1>1, <1>2, <1>3, StartupInvariant, PTL DEF Spec

-----------------------------------------------------------------------------
(***************************************************************************)
(* Rotations stand.                                                        *)
(***************************************************************************)

\* Nobody has signed in, and no password been rotated, while the account is not
\* in the index: requests are answered by serving instances only.
UsedIsIndexed ==
  /\ ~ indexed => \A c \in Clients : At(c, "idle")
  /\ Rotated => indexed

LEMMA UsedStep ==
  ASSUME StartupInv, UsedIsIndexed, [Next]_vars
  PROVE  UsedIsIndexed'
<1>1. CASE UNCHANGED vars
  BY <1>1 DEF vars, adminVars, UsedIsIndexed, Rotated, At
<1>2. ASSUME NEW i \in Instances, Progress(i) \/ Environment(i)
      PROVE  UsedIsIndexed'
  <2>1. UNCHANGED request
    BY <1>2, InstanceStep
  <2>2. CASE LeavesAccount(i)
    BY <2>1, <2>2 DEF LeavesAccount, UsedIsIndexed, Rotated, At
  <2>3. CASE UserSet(i)
    <3>1. /\ account' = [password |-> inst[i].temporary, mustChange |-> TRUE]
          /\ UNCHANGED indexed
      BY <2>3, BootStep
    <3>2. account'.mustChange = TRUE
      BY <3>1
    <3>3. ~ Rotated'
      BY <3>2 DEF Rotated
    <3>4. QED
      BY <2>1, <3>1, <3>3 DEF UsedIsIndexed, At
  <2>4. CASE UserIndexed(i)
    BY <2>1, <2>4, BootStep DEF UsedIsIndexed, Rotated, At
  <2>5. CASE PasswordPrinted(i)
    BY <2>1, <2>5, BootStep DEF UsedIsIndexed, Rotated, At
  <2>6. QED
    BY <1>2, <2>2, <2>3, <2>4, <2>5, InstanceStep
<1>3. CASE Served
  <2>1. indexed
    BY <1>3, AdminsStep
  <2>2. UNCHANGED indexed \/ indexed' = TRUE
    BY <1>3, AdminsStep DEF AccountStays, PasswordPut, PasswordIndexed
  <2>3. indexed'
    BY Zenon, <2>1, <2>2
  <2>4. QED
    BY <2>3 DEF UsedIsIndexed
<1>4. CASE Dropped /\ ~ Served
  <2>1. AccountStays /\ \A c \in Clients : ~ At(c, "idle")' => ~ At(c, "idle")
    BY <1>4, AdminsStep
  <2>2. QED
    BY <2>1 DEF AccountStays, UsedIsIndexed, Rotated
<1>5. QED
  BY <1>1, <1>2, <1>3, <1>4 DEF Next

\* What a rotation and everything else of the administrators does to an account
\* that is rotated.
LEMMA RotatedByAdmins ==
  ASSUME StartupInv, Rotated, Served \/ Dropped
  PROVE  Rotated'
<1>1. CASE UNCHANGED account
  BY <1>1 DEF Rotated
<1>2. ASSUME NEW c \in Clients, PasswordPut(c)
      PROVE  Rotated'
  <2>1. account' = [password |-> request[c].form, mustChange |-> FALSE]
        /\ account' \in Account
    BY <1>2, OfClient DEF PasswordPut, At, RotatedAccount, Account, Passwords
  <2>2. account' # NoAccount
    BY <2>1, StartupAssumption
  <2>3. QED
    BY <2>1, <2>2 DEF Rotated
<1>3. QED
  BY <1>1, <1>2, AdminsStep DEF AccountStays, PasswordIndexed

\* An account that is in the index is found by every start that looks.
LEMMA SecuredStep ==
  ASSUME StartupInv, UsedIsIndexed, [Next]_vars, Secured
  PROVE  Secured'
<1> USE DEF Secured, Waits
<1>1. CASE UNCHANGED vars
  BY <1>1 DEF vars, adminVars, startVars, Rotated
<1>2. ASSUME NEW i \in Instances, Progress(i) \/ Environment(i)
      PROVE  Secured'
  <2>1. /\ \A j \in Instances \ {i} : inst'[j] = inst[j]
        /\ indexed
    BY <1>2, InstanceStep DEF UsedIsIndexed
  <2>2. UNCHANGED account /\ inst'[i].at # "setUser"
    BY <1>2, <2>1, InstanceStep, BootStep DEF LeavesAccount
  <2>3. QED
    BY <2>1, <2>2 DEF Rotated
<1>3. CASE Served \/ Dropped
  BY <1>3, RotatedByAdmins, AdminsStep
<1>4. QED
  BY <1>1, <1>2, <1>3 DEF Next

LEMMA UsedAlways == Spec => []UsedIsIndexed
<1>1. Init => UsedIsIndexed
  BY DEF Init, AdminInit, UsedIsIndexed, Idle, At, Rotated
<1>2. StartupInv /\ UsedIsIndexed /\ [Next]_vars => UsedIsIndexed'
  BY UsedStep
<1>3. QED
  BY <1>1, <1>2, StartupInvariant, PTL DEF Spec

\* Once an administrator has rotated the temporary password, and no instance is
\* left that looked for an account before there was one, no start, failure or
\* crash of any number of instances puts a temporary password back
\* (bootstrap_admin, any_exists).
THEOREM RotationSurvives == Spec => RotationSurvivesStarts
<1>1. StartupInv /\ UsedIsIndexed /\ [Next]_vars => [Secured => Secured']_vars
  BY SecuredStep
<1>2. QED
  BY <1>1, UsedAlways, StartupInvariant, PTL DEF Spec, RotationSurvivesStarts

\* The one instance goes on to write an account only where it found none.
LooksFirst ==
  \A i \in Instances : inst[i].at \in {"setUser", "indexUser"} => ~ indexed

LEMMA OneStep ==
  ASSUME NEW one, Instances = {one}, StartupInv, UsedIsIndexed, LooksFirst,
         [Next]_vars
  PROVE  LooksFirst' /\ (Rotated => Rotated')
<1>1. CASE UNCHANGED vars
  BY <1>1 DEF vars, adminVars, startVars, LooksFirst, Rotated
<1>2. CASE Progress(one) \/ Environment(one)
  <2>1. CASE LeavesAccount(one)
    BY <2>1 DEF LeavesAccount, LooksFirst, Rotated
  <2>2. CASE UserSet(one)
    BY <2>2, BootStep DEF LooksFirst, UsedIsIndexed
  <2>3. CASE UserIndexed(one)
    BY <2>3, BootStep DEF LooksFirst, Rotated
  <2>4. CASE PasswordPrinted(one)
    BY <2>4, BootStep DEF LooksFirst, Rotated
  <2>5. QED
    BY <1>2, <2>1, <2>2, <2>3, <2>4, InstanceStep
<1>3. CASE Served \/ Dropped
  <2>1. UNCHANGED inst /\ (Rotated => Rotated')
    BY <1>3, AdminsStep, RotatedByAdmins
  <2>2. CASE indexed
    <3>1. inst[one].at \notin {"setUser", "indexUser"}
      BY <2>2 DEF LooksFirst
    <3>2. QED
      BY <2>1, <3>1 DEF LooksFirst
  <2>3. CASE ~ indexed
    <3>1. ~ Served
      BY <2>3, AdminsStep
    <3>2. UNCHANGED indexed
      BY <1>3, <3>1, AdminsStep DEF AccountStays
    <3>3. QED
      BY <2>1, <2>3, <3>2 DEF LooksFirst
  <2>4. QED
    BY <2>2, <2>3
<1>4. QED
  BY <1>1, <1>2, <1>3 DEF Next

\* A password an administrator has chosen stays until it is rotated again: no
\* start puts a temporary one in its place (bootstrap_admin, "any_exists").
RotationStands == [][Rotated => Rotated']_vars

\* With one instance a rotation stands, whatever Redis or the instance does; a
\* second instance that starts meanwhile may have looked before the first had
\* written the index.
THEOREM OneInstanceKeepsRotation ==
  ASSUME NEW one, Instances = {one}
  PROVE  Spec => RotationStands
<1>1. Init => LooksFirst
  BY DEF Init, AdminInit, LooksFirst
<1>2. StartupInv /\ UsedIsIndexed /\ LooksFirst /\ [Next]_vars => LooksFirst'
  BY OneStep
<1>3. StartupInv /\ UsedIsIndexed /\ LooksFirst /\ [Next]_vars
        => [Rotated => Rotated']_vars
  BY OneStep
<1>4. QED
  BY <1>1, <1>2, <1>3, UsedAlways, StartupInvariant, PTL DEF Spec, RotationStands

-----------------------------------------------------------------------------
(***************************************************************************)
(* The table.                                                              *)
(***************************************************************************)

\* Two instances are never in the transaction of ensure_schema at once, so that
\* what one has seen of the catalog still holds when it commits
\* (postgres_vector.py:82-85).
OneTransaction ==
  \A i, j \in Instances :
    inst[i].at \in {"create", "width", "commit"}
      /\ inst[j].at \in {"create", "width", "commit"} => i = j

\* The advisory lock admits one transaction, and none keeps it that has ended.
THEOREM TransactionsExclude == Spec => []OneTransaction
<1>1. StartupInv => OneTransaction
  BY DEF StartupInv, InstanceInv, Locks, OneTransaction
<1>2. QED
  BY <1>1, StartupInvariant, PTL

\* A committed table keeps its width: a deployment with another width is refused
\* and never alters or replaces the table others serve from.
TableStands == [][table # NoTable => table' = table]_vars

\* No start changes a committed table.
THEOREM TableIsNeverReplaced == Spec => TableStands
<1>1. ASSUME StartupInv, NEW i \in Instances, Progress(i) \/ Environment(i),
             table # NoTable
      PROVE  table' = table
  <2>1. ~ inst[i].made
    BY <1>1 DEF StartupInv, InstanceInv, Makes
  <2>2. QED
    BY <1>1, <2>1
    DEF Progress, Environment, PoolOpened, LockTaken, TableEnsured, WidthChecked,
        WidthRefused, SchemaCommitted, ConfigRead, AnyExists, UserSet, UserIndexed,
        PasswordPrinted, Closed, Start, Stop, PoolFails, SchemaFails, BootFails,
        Killed, LifespanEnds
<1>2. StartupInv /\ [Next]_vars => [table # NoTable => table' = table]_vars
  BY <1>1 DEF Next, Served, Dropped, startVars, vars
<1>3. QED
  BY <1>2, StartupInvariant, PTL DEF Spec, TableStands
=============================================================================
