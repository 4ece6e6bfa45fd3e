---------------------------- MODULE StoragePool ----------------------------
(* Storage: the pool of SQLite connections, created on first use, handed out *)
(* from a queue and put back whatever happened; and what a transaction left  *)
(* open on a connection means to the next user of it.  Every method of       *)
(* Storage is one statement, and a commit if it writes; a step is the code   *)
(* between two awaits, a statement runs in the connection's own thread.      *)
EXTENDS Naturals, Sequences, FiniteSets

CONSTANTS Users,    \* the tasks that call a method
          Writers,  \* those that write, each once
          PoolSize, \* _pool_size
          MaxPools, \* bound: pools created
          MaxCuts   \* bound: users that are cancelled

ASSUME PoolAssumption ==
  /\ Writers \subseteq Users /\ IsFiniteSet(Users)
  /\ PoolSize \in Nat \ {0} /\ MaxPools \in Nat \ {0} /\ MaxCuts \in Nat

VARIABLES pools,     \* the queues of connections, the last one is _pool
          closed,    \* _pool is None again
          tx,        \* per connection: its open transaction
          committed, \* the writes in the database
          user,      \* per user: where it stands
          told,      \* per user: what became of its write, as its caller knows
          cuts

poolVars == <<pools, closed, tx, committed, user, told, cuts>>

Conns == (1 .. MaxPools) \X (1 .. PoolSize)

\* An open transaction: begun by a write, reading since its first SELECT, and
\* the writes it holds.
NoTx == [open |-> FALSE, reads |-> FALSE, seen |-> {}, mine |-> {}]
Away == [pc |-> "away", pool |-> 0, conn |-> <<0, 0>>, op |-> "read"]

PoolInit ==
  /\ pools = <<>> /\ closed = TRUE
  /\ tx = [k \in Conns |-> NoTx]
  /\ committed = {}
  /\ user = [u \in Users |-> Away]
  /\ told = [u \in Users |-> "nothing"]
  /\ cuts = 0

\* The first use finds no pool and opens one; the await lets others do the same.
Enter(u, op) ==
  /\ user[u].pc = "away"
  /\ op = "write" => u \in Writers /\ told[u] = "nothing"
  /\ user' = [user EXCEPT ![u] =
       IF closed THEN [Away EXCEPT !.pc = "connect", !.op = op]
                 ELSE [Away EXCEPT !.pc = "queue", !.pool = Len(pools), !.op = op]]
  /\ UNCHANGED <<pools, closed, tx, committed, told, cuts>>

\* The new queue becomes _pool, in place of one another first user made.
Connect(u) ==
  /\ user[u].pc = "connect" /\ Len(pools) < MaxPools
  /\ pools' = Append(pools, [i \in 1 .. PoolSize |-> <<Len(pools) + 1, i>>])
  /\ closed' = FALSE
  /\ user' = [user EXCEPT ![u].pc = "queue", ![u].pool = Len(pools) + 1]
  /\ UNCHANGED <<tx, committed, told, cuts>>

Acquire(u) ==
  LET p == user[u].pool IN
  /\ user[u].pc = "queue" /\ pools[p] # <<>>
  /\ user' = [user EXCEPT ![u].pc = "run", ![u].conn = Head(pools[p])]
  /\ pools' = [pools EXCEPT ![p] = Tail(@)]
  /\ UNCHANGED <<closed, tx, committed, told, cuts>>

Locked(k) == \E j \in Conns \ {k} : tx[j].mine # {}
Outdated(k) == tx[k].reads /\ tx[k].seen # committed

\* An INSERT or UPDATE opens a transaction, and either it gets the write lock
\* and its row is pending, or it fails with "database is locked": after 30 s
\* if another connection holds the lock, at once if its own reads are old.
Inserted(k, u) == IF Locked(k) \/ Outdated(k) THEN [tx[k] EXCEPT !.open = TRUE]
                  ELSE [tx[k] EXCEPT !.open = TRUE, !.mine = @ \cup {u}]

\* Mutant: a method that is cancelled or raises keeps its connection.
LeftKept(u, fate) ==
  /\ user' = [user EXCEPT ![u] = Away]
  /\ told' = IF user[u].op = "write" THEN [told EXCEPT ![u] = fate] ELSE told
  /\ UNCHANGED pools

\* The method ends: its connection goes back to the queue it came from as it
\* is, transaction and all.
Left(u, fate) ==
  /\ user' = [user EXCEPT ![u] = Away]
  /\ told' = IF user[u].op = "write" THEN [told EXCEPT ![u] = fate] ELSE told
  /\ pools' = [pools EXCEPT ![user[u].pool] = Append(@, user[u].conn)]

\* A SELECT sees the database as of the first one of an open transaction, and
\* what that transaction has written.
Read(u) ==
  LET k == user[u].conn IN
  /\ user[u].pc = "run" /\ user[u].op = "read"
  /\ tx' = IF tx[k].open /\ ~tx[k].reads
             THEN [tx EXCEPT ![k].reads = TRUE, ![k].seen = committed] ELSE tx
  /\ Left(u, "nothing")
  /\ UNCHANGED <<closed, committed, cuts>>

Write(u) ==
  LET k == user[u].conn IN
  /\ user[u].pc = "run" /\ user[u].op = "write"
  /\ tx' = [tx EXCEPT ![k] = Inserted(k, u)]
  /\ IF u \in tx'[k].mine
       THEN user' = [user EXCEPT ![u].pc = "commit"] /\ UNCHANGED <<pools, told>>
       ELSE Left(u, "failed")
  /\ UNCHANGED <<closed, committed, cuts>>

\* Mutant: the method returns without the commit.
CommittedNothing(k) == UNCHANGED <<tx, committed>>

\* A commit ends the transaction of its connection, whoever began it.
Committed(k) ==
  /\ committed' = committed \cup tx[k].mine
  /\ tx' = [tx EXCEPT ![k] = NoTx]

Commit(u) ==
  /\ user[u].pc = "commit"
  /\ Committed(user[u].conn)
  /\ Left(u, "done")
  /\ UNCHANGED <<closed, cuts>>

\* A user is cancelled by a time limit.  Before it has a connection nothing
\* happened; later the thread still does what it was asked: the statement
\* without its commit, or the commit without an answer.
Cut(u) ==
  LET k == user[u].conn IN
  /\ user[u].pc # "away" /\ cuts < MaxCuts /\ cuts' = cuts + 1
  /\ CASE user[u].pc \in {"connect", "queue"} ->
            /\ user' = [user EXCEPT ![u] = Away]
            /\ told' = IF user[u].op = "write" THEN [told EXCEPT ![u] = "failed"] ELSE told
            /\ UNCHANGED <<pools, tx, committed>>
       [] user[u].pc = "run" ->
            /\ tx' = IF user[u].op = "write" THEN [tx EXCEPT ![k] = Inserted(k, u)] ELSE tx
            /\ Left(u, "failed")
            /\ UNCHANGED committed
       [] user[u].pc = "commit" ->
            /\ Committed(k) /\ Left(u, "in doubt")
  /\ UNCHANGED closed

\* close: the connections in the queue are closed, which rolls back; those in
\* use come back to a queue that is nobody's any more.
ClosePool ==
  /\ ~closed /\ closed' = TRUE
  /\ tx' = [k \in Conns |-> IF \E i \in DOMAIN pools[Len(pools)] : pools[Len(pools)][i] = k
                              THEN NoTx ELSE tx[k]]
  /\ pools' = [pools EXCEPT ![Len(pools)] = <<>>]
  /\ UNCHANGED <<committed, user, told, cuts>>

PoolNext ==
  \/ \E u \in Users : \/ \E op \in {"read", "write"} : Enter(u, op)
                      \/ Connect(u) \/ Acquire(u) \/ Read(u) \/ Write(u) \/ Commit(u) \/ Cut(u)
  \/ ClosePool

PoolSpec == PoolInit /\ [][PoolNext]_poolVars
----------------------------------------------------------------------------
PoolTypeOK ==
  /\ Len(pools) <= MaxPools /\ closed \in BOOLEAN /\ cuts \in 0 .. MaxCuts
  /\ committed \subseteq Users
  /\ \A k \in Conns : tx[k].seen \subseteq committed /\ tx[k].mine \subseteq Users
  /\ \A u \in Users : user[u].pc \in {"away", "connect", "queue", "run", "commit"}

InUse(p) == {u \in Users : user[u].pc \in {"run", "commit"} /\ user[u].pool = p}

\* No connection is ever lost or in two hands: of the pool in use, each one is
\* in the queue or with one method, after errors and cancellations, too.
ConnectionsConserved ==
  /\ \A u, v \in Users : u # v /\ user[u].pc \in {"run", "commit"}
                               /\ user[v].pc \in {"run", "commit"} => user[u].conn # user[v].conn
  /\ ~closed => Len(pools[Len(pools)]) + Cardinality(InUse(Len(pools))) = PoolSize

\* A write whose caller was answered is in the database, and only one
\* connection at a time has rows pending.
AnsweredDurable ==
  /\ \A u \in Users : told[u] = "done" => u \in committed
  /\ \A k, j \in Conns : tx[k].mine # {} /\ tx[j].mine # {} => k = j

\* What every variable is in full; what a user needs of the pools is below.
PoolShape ==
  /\ pools \in Seq(Seq(Conns)) /\ Len(pools) <= MaxPools
  /\ closed \in BOOLEAN /\ (pools = <<>> => closed)
  /\ committed \subseteq Users /\ cuts \in 0 .. MaxCuts
  /\ tx \in [Conns -> [open : BOOLEAN, reads : BOOLEAN,
                       seen : SUBSET committed, mine : SUBSET Users]]
  /\ user \in [Users -> [pc : {"away", "connect", "queue", "run", "commit"},
                         pool : 0 .. MaxPools, conn : Conns \cup {<<0, 0>>},
                         op : {"read", "write"}]]
  /\ told \in [Users -> {"nothing", "failed", "in doubt", "done"}]

Holds(u) == user[u].pc \in {"run", "commit"}

\* A connection stays with the queue it was made for, there only once, and is
\* not in it while a user has it.
QueuesApart ==
  \A p \in DOMAIN pools : \A i \in DOMAIN pools[p] :
    /\ pools[p][i][1] = p
    /\ \A j \in DOMAIN pools[p] : pools[p][i] = pools[p][j] => i = j

HandsApart ==
  \A u \in Users :
    /\ user[u].pc = "queue" \/ Holds(u) => user[u].pool \in DOMAIN pools
    /\ Holds(u) =>
         /\ user[u].conn \in Conns /\ user[u].conn[1] = user[u].pool
         /\ \A i \in DOMAIN pools[user[u].pool] : pools[user[u].pool][i] # user[u].conn

PoolInv == PoolShape /\ QueuesApart /\ HandsApart /\ ConnectionsConserved

\* A row is pending on the connection of its writer until the writer commits.
RowsPending == \A u \in Users : user[u].pc = "commit" => u \in tx[user[u].conn].mine
=============================================================================
