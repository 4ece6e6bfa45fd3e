-------------------------- MODULE Analysis_proofs --------------------------
(* Proofs about six of the components of MCAnalysis: no connection of       *)
(* StoragePool is lost or in two hands, and a write whose caller was        *)
(* answered is in the database; TradeSizing puts stop and target where they *)
(* belong; MarketData gives nothing out for newer than it is; Notices keeps *)
(* the alerts of a chat an hour apart; and TradeSizing, MarketContext and   *)
(* WorldModel never answer danger or doubt with more size or confidence.    *)
EXTENDS MCAnalysis, FiniteSetTheorems, SequenceTheorems, WellFoundedInduction, TLAPS

\* A connection in nobody's hands stays in its queue's place when the first
\* of the queue is taken out.
LEMMA TailShifts ==
  ASSUME NEW S, NEW q \in Seq(S), q # <<>>
  PROVE  /\ Head(q) \in S /\ Tail(q) \in Seq(S) /\ Len(Tail(q)) = Len(q) - 1
         /\ 1 \in DOMAIN q /\ Head(q) = q[1]
         /\ \A i \in DOMAIN Tail(q) : i + 1 \in DOMAIN q /\ i \in Nat /\ i # 0
                                      /\ Tail(q)[i] = q[i + 1]
  <1>1. Len(q) \in Nat /\ Len(q) > 0
    BY EmptySeq
  <1> QED BY <1>1, HeadTailProperties

LEMMA AppendShifts ==
  ASSUME NEW S, NEW q \in Seq(S), NEW x \in S
  PROVE  /\ Append(q, x) \in Seq(S) /\ Len(Append(q, x)) = Len(q) + 1
         /\ \A i \in DOMAIN Append(q, x) :
              \/ i \in DOMAIN q /\ Append(q, x)[i] = q[i]
              \/ i \notin DOMAIN q /\ i = Len(q) + 1 /\ Append(q, x)[i] = x
  BY AppendProperties

LEMMA QueueKnown ==
  ASSUME PoolShape
  PROVE  /\ Len(pools) \in Nat /\ DOMAIN pools = 1 .. Len(pools)
         /\ \A p \in DOMAIN pools :
              /\ pools[p] \in Seq(Conns)
              /\ Len(pools[p]) \in Nat /\ DOMAIN pools[p] = 1 .. Len(pools[p])
              /\ \A i \in DOMAIN pools[p] : pools[p][i] \in Conns
         /\ ~closed => Len(pools) \in DOMAIN pools
  <1>1. Len(pools) \in Nat /\ DOMAIN pools = 1 .. Len(pools)
        /\ \A p \in DOMAIN pools : pools[p] \in Seq(Conns)
    BY LenProperties, ElementOfSeq DEF PoolShape
  <1>2. ASSUME NEW p \in DOMAIN pools
        PROVE  /\ Len(pools[p]) \in Nat /\ DOMAIN pools[p] = 1 .. Len(pools[p])
               /\ \A i \in DOMAIN pools[p] : pools[p][i] \in Conns
    <2>1. pools[p] \in Seq(Conns)
      BY <1>1
    <2> QED BY <2>1, LenProperties, ElementOfSeq
  <1>3. ~closed => Len(pools) \in DOMAIN pools
    <2>1. pools \in Seq(Seq(Conns)) /\ (pools = <<>> => closed)
      BY DEF PoolShape
    <2>2. ~closed => Len(pools) \in Nat \ {0}
      BY <2>1, EmptySeq
    <2> QED BY <1>1, <2>2
  <1> QED BY <1>1, <1>2, <1>3

\* One queue changes, the others stay.
LEMMA QueueReplaced ==
  ASSUME PoolShape, NEW p \in DOMAIN pools, NEW q \in Seq(Conns),
         pools' = [pools EXCEPT ![p] = q]
  PROVE  /\ pools' \in Seq(Seq(Conns)) /\ Len(pools') = Len(pools)
         /\ DOMAIN pools' = DOMAIN pools
         /\ pools' = <<>> => pools = <<>>
         /\ \A r \in DOMAIN pools : pools'[r] = IF r = p THEN q ELSE pools[r]
  <1>1. Len(pools) \in Nat /\ DOMAIN pools = 1 .. Len(pools) /\ pools \in Seq(Seq(Conns))
    BY QueueKnown DEF PoolShape
  <1>2. /\ pools' \in Seq(Seq(Conns)) /\ Len(pools') = Len(pools)
        /\ \A r \in DOMAIN pools : pools'[r] = IF r = p THEN q ELSE pools[r]
    BY <1>1, ExceptSeq
  <1> QED BY <1>1, <1>2, LenProperties

\* A method that ends puts its connection back: it is in its queue, once, and
\* with nobody.
LEMMA ReturnApart ==
  ASSUME PoolInv, NEW u \in Users, Holds(u), NEW fate, Left(u, fate), closed' = closed
  PROVE  /\ QueuesApart' /\ HandsApart' /\ ConnectionsConserved'
         /\ pools' \in Seq(Seq(Conns)) /\ Len(pools') = Len(pools)
         /\ pools' = <<>> => pools = <<>>
  <1> DEFINE k == user[u].conn
             p == user[u].pool
             q == pools[p]
  <1>1. p \in DOMAIN pools /\ k \in Conns /\ k[1] = p
        /\ \A i \in DOMAIN q : q[i] # k
    BY DEF PoolInv, HandsApart
  <1>2. /\ Len(pools) \in Nat /\ DOMAIN pools = 1 .. Len(pools)
        /\ q \in Seq(Conns) /\ Len(q) \in Nat /\ DOMAIN q = 1 .. Len(q)
    BY <1>1, QueueKnown DEF PoolInv
  <1>3. /\ Append(q, k) \in Seq(Conns) /\ Len(Append(q, k)) = Len(q) + 1
        /\ \A i \in DOMAIN Append(q, k) :
              \/ i \in DOMAIN q /\ Append(q, k)[i] = q[i]
              \/ i \notin DOMAIN q /\ i = Len(q) + 1 /\ Append(q, k)[i] = k
    BY <1>1, <1>2, AppendShifts
  <1>4. /\ pools' \in Seq(Seq(Conns)) /\ Len(pools') = Len(pools)
        /\ DOMAIN pools' = DOMAIN pools
        /\ pools' = <<>> => pools = <<>>
        /\ \A r \in DOMAIN pools : pools'[r] = IF r = p THEN Append(q, k) ELSE pools[r]
    <2>1. pools' = [pools EXCEPT ![p] = Append(q, k)]
      BY DEF Left
    <2> HIDE DEF p, q, k
    <2> QED BY <2>1, <1>1, <1>3, QueueReplaced DEF PoolInv
  <1>5. user'[u] = Away /\ \A v \in Users \ {u} : user'[v] = user[v]
    BY DEF Left, PoolInv, PoolShape
  <1>6. QueuesApart'
    <2> SUFFICES ASSUME NEW r \in DOMAIN pools, NEW i \in DOMAIN pools'[r]
                 PROVE  /\ pools'[r][i][1] = r
                        /\ \A j \in DOMAIN pools'[r] : pools'[r][i] = pools'[r][j] => i = j
      BY <1>4 DEF QueuesApart
    <2>1. CASE r = p
      <3> HIDE DEF p, q, k
      <3>1. pools'[r] = Append(q, k)
        BY <1>4, <2>1
      <3>2. \A j \in DOMAIN q : q[j][1] = p /\ \A l \in DOMAIN q : q[j] = q[l] => j = l
        BY <1>1 DEF PoolInv, QueuesApart, q
      <3> QED BY <3>1, <3>2, <2>1, <1>1, <1>3
    <2>2. CASE r # p
      BY <2>2, <1>4 DEF PoolInv, QueuesApart
    <2> QED BY <2>1, <2>2
  <1>7. HandsApart'
    <2> SUFFICES ASSUME NEW v \in Users \ {u}
                 PROVE  /\ user'[v].pc = "queue" \/ Holds(v)' => user'[v].pool \in DOMAIN pools'
                        /\ Holds(v)' =>
                             /\ user'[v].conn \in Conns /\ user'[v].conn[1] = user'[v].pool
                             /\ \A i \in DOMAIN pools'[user'[v].pool] :
                                  pools'[user'[v].pool][i] # user'[v].conn
      BY <1>5 DEF HandsApart, Holds, Away
    <2>1. user'[v] = user[v] /\ (Holds(v)' <=> Holds(v))
      BY <1>5 DEF Holds
    <2>2. Holds(v) => user[v].conn # k
      BY DEF PoolInv, ConnectionsConserved, Holds
    <2>3. /\ user[v].pc = "queue" \/ Holds(v) => user[v].pool \in DOMAIN pools
          /\ Holds(v) => /\ user[v].conn \in Conns /\ user[v].conn[1] = user[v].pool
                         /\ \A i \in DOMAIN pools[user[v].pool] : pools[user[v].pool][i] # user[v].conn
      BY DEF PoolInv, HandsApart
    <2>4. ASSUME Holds(v), NEW i \in DOMAIN pools'[user[v].pool]
          PROVE  pools'[user[v].pool][i] # user[v].conn
      <3>1. CASE user[v].pool = p
        <4>1. pools'[user[v].pool] = Append(q, k)
          BY <3>1, <1>4, <1>1
        <4>2. \A j \in DOMAIN q : q[j] # user[v].conn
          BY <2>3, <2>4, <3>1
        <4> HIDE DEF p, q, k
        <4> QED BY <4>1, <4>2, <1>3, <2>2, <2>4
      <3>2. CASE user[v].pool # p
        BY <3>2, <1>4, <2>3, <2>4
      <3> QED BY <3>1, <3>2
    <2> QED BY <2>1, <2>3, <2>4, <1>4
  <1>8. ConnectionsConserved'
    <2>1. \A v, w \in Users : v # w /\ user'[v].pc \in {"run", "commit"}
                              /\ user'[w].pc \in {"run", "commit"} => user'[v].conn # user'[w].conn
      BY <1>5 DEF PoolInv, ConnectionsConserved, Away
    <2>2. ASSUME ~closed
          PROVE  Len(pools'[Len(pools)]) + Cardinality(InUse(Len(pools))') = PoolSize
      <3>1. /\ Len(pools[Len(pools)]) + Cardinality(InUse(Len(pools))) = PoolSize
            /\ Len(pools) \in DOMAIN pools
            /\ Len(pools[Len(pools)]) \in Nat
        BY <2>2, QueueKnown DEF PoolInv, ConnectionsConserved
      <3>2. IsFiniteSet(InUse(Len(pools))) /\ Cardinality(InUse(Len(pools))) \in Nat
        BY PoolAssumption, FS_Subset, FS_CardinalityType DEF InUse
      <3>3. CASE p = Len(pools)
        <4>1. InUse(Len(pools))' = InUse(Len(pools)) \ {u} /\ u \in InUse(Len(pools))
          BY <1>5, <1>4, <3>3 DEF InUse, Holds, Away
        <4>2. Cardinality(InUse(Len(pools))') = Cardinality(InUse(Len(pools))) - 1
          BY <4>1, <3>2, FS_RemoveElement
        <4> HIDE DEF k
        <4> QED BY <4>2, <3>1, <3>2, <3>3, <1>3, <1>4
      <3>4. CASE p # Len(pools)
        <4>1. InUse(Len(pools))' = InUse(Len(pools))
          <5>1. u \notin InUse(Len(pools)) /\ u \notin InUse(Len(pools))'
            BY <1>5, <3>4 DEF InUse, Away
          <5>2. \A v \in Users \ {u} : v \in InUse(Len(pools))' <=> v \in InUse(Len(pools))
            BY <1>5, <1>4 DEF InUse
          <5> QED BY <5>1, <5>2 DEF InUse
        <4> QED BY <4>1, <3>1, <3>4, <1>4
      <3> QED BY <3>3, <3>4
    <2> QED BY <2>1, <2>2, <1>4, closed' = closed DEF ConnectionsConserved
  <1> QED BY <1>4, <1>6, <1>7, <1>8

\* The user at the head of the line takes the first connection of its queue.
LEMMA AcquireApart ==
  ASSUME PoolInv, NEW u \in Users, Acquire(u)
  PROVE  PoolInv'
  <1> DEFINE p == user[u].pool
             q == pools[p]
             k == Head(q)
  <1>1. p \in DOMAIN pools /\ q # <<>> /\ ~Holds(u)
    BY DEF PoolInv, HandsApart, Acquire, Holds
  <1>2. /\ Len(pools) \in Nat /\ DOMAIN pools = 1 .. Len(pools)
        /\ q \in Seq(Conns) /\ Len(q) \in Nat /\ DOMAIN q = 1 .. Len(q)
        /\ \A i \in DOMAIN q : q[i] \in Conns /\ q[i][1] = p
    BY <1>1, QueueKnown DEF PoolInv, QueuesApart
  <1>3. /\ k \in Conns /\ Tail(q) \in Seq(Conns) /\ Len(Tail(q)) = Len(q) - 1
        /\ 1 \in DOMAIN q /\ k = q[1]
        /\ \A i \in DOMAIN Tail(q) : i + 1 \in DOMAIN q /\ i \in Nat /\ i # 0
                                     /\ Tail(q)[i] = q[i + 1]
    <2> HIDE DEF q
    <2> QED BY <1>1, <1>2, TailShifts DEF k
  <1>4. /\ pools' \in Seq(Seq(Conns)) /\ Len(pools') = Len(pools)
        /\ DOMAIN pools' = DOMAIN pools
        /\ pools' = <<>> => pools = <<>>
        /\ \A r \in DOMAIN pools : pools'[r] = IF r = p THEN Tail(q) ELSE pools[r]
    <2>1. pools' = [pools EXCEPT ![p] = Tail(q)]
      BY DEF Acquire
    <2> HIDE DEF p, q, k
    <2> QED BY <2>1, <1>1, <1>3, QueueReplaced DEF PoolInv
  <1>5. /\ user' \in [Users -> [pc : {"away", "connect", "queue", "run", "commit"},
                         pool : 0 .. MaxPools, conn : Conns \cup {<<0, 0>>},
                         op : {"read", "write"}]]
        /\ user'[u].pc = "run" /\ user'[u].conn = k /\ user'[u].pool = p
        /\ \A v \in Users \ {u} : user'[v] = user[v]
    <2> HIDE DEF q
    <2> QED BY <1>3 DEF Acquire, PoolInv, PoolShape, q
  <1> HIDE DEF k
  <1>6. QueuesApart'
    <2> SUFFICES ASSUME NEW r \in DOMAIN pools, NEW i \in DOMAIN pools'[r]
                 PROVE  /\ pools'[r][i][1] = r
                        /\ \A j \in DOMAIN pools'[r] : pools'[r][i] = pools'[r][j] => i = j
      BY <1>4 DEF QueuesApart
    <2>1. CASE r = p
      <3>2. \A j \in DOMAIN q : q[j][1] = p /\ \A l \in DOMAIN q : q[j] = q[l] => j = l
        BY <1>1 DEF PoolInv, QueuesApart
      <3> HIDE DEF p, q
      <3>1. pools'[r] = Tail(q)
        BY <1>4, <2>1
      <3> QED BY <3>1, <3>2, <2>1, <1>3
    <2>2. CASE r # p
      BY <2>2, <1>4 DEF PoolInv, QueuesApart
    <2> QED BY <2>1, <2>2
  \* k leaves its queue, where it was only once.
  <1>7. \A i \in DOMAIN Tail(q) : Tail(q)[i] # k
    <2>1. \A j, l \in DOMAIN q : q[j] = q[l] => j = l
      BY <1>1 DEF PoolInv, QueuesApart
    <2> HIDE DEF q
    <2> QED BY <2>1, <1>3, <1>2
  <1>8. ASSUME NEW v \in Users \ {u}
        PROVE  /\ user[v].pc = "queue" \/ Holds(v) => user[v].pool \in DOMAIN pools
               /\ Holds(v) => /\ user[v].conn \in Conns /\ user[v].conn[1] = user[v].pool
                              /\ user[v].conn # k
                              /\ \A i \in DOMAIN pools'[user[v].pool] :
                                   pools'[user[v].pool][i] # user[v].conn
    <2>1. /\ user[v].pc = "queue" \/ Holds(v) => user[v].pool \in DOMAIN pools
          /\ Holds(v) => /\ user[v].conn \in Conns /\ user[v].conn[1] = user[v].pool
                         /\ \A i \in DOMAIN pools[user[v].pool] : pools[user[v].pool][i] # user[v].conn
      BY DEF PoolInv, HandsApart
    <2>2. ASSUME Holds(v) PROVE user[v].conn # k
      BY <2>1, <2>2, <1>2, <1>3
    <2>3. ASSUME Holds(v), NEW i \in DOMAIN pools'[user[v].pool]
          PROVE  pools'[user[v].pool][i] # user[v].conn
      <3>1. CASE user[v].pool = p
        <4>1. pools'[user[v].pool] = Tail(q)
          BY <3>1, <1>4, <1>1
        <4>2. \A j \in DOMAIN q : q[j] # user[v].conn
          BY <2>1, <2>3, <3>1
        <4> HIDE DEF p, q
        <4> QED BY <4>1, <4>2, <1>3, <2>3
      <3>2. CASE user[v].pool # p
        BY <3>2, <1>4, <2>1, <2>3
      <3> QED BY <3>1, <3>2
    <2> QED BY <2>1, <2>2, <2>3
  <1>9. HandsApart'
    <2> SUFFICES ASSUME NEW v \in Users
                 PROVE  /\ user'[v].pc = "queue" \/ Holds(v)' => user'[v].pool \in DOMAIN pools'
                        /\ Holds(v)' =>
                             /\ user'[v].conn \in Conns /\ user'[v].conn[1] = user'[v].pool
                             /\ \A i \in DOMAIN pools'[user'[v].pool] :
                                  pools'[user'[v].pool][i] # user'[v].conn
      BY DEF HandsApart
    <2>1. CASE v = u
      <3>1. user'[u].pc = "run" /\ user'[u].conn = k /\ user'[u].pool = p
        BY <1>5
      <3>2. pools'[p] = Tail(q) /\ p \in DOMAIN pools'
        BY <1>1, <1>4
      <3>3. k \in Conns /\ k[1] = p
        BY <1>2, <1>3
      <3> HIDE DEF p, q
      <3> QED BY <2>1, <3>1, <3>2, <3>3, <1>7
    <2>2. CASE v # u
      <3>1. user'[v] = user[v] /\ (Holds(v)' <=> Holds(v))
        BY <2>2, <1>5 DEF Holds
      <3> QED BY <3>1, <2>2, <1>4, <1>8
    <2> QED BY <2>1, <2>2
  <1>10. ConnectionsConserved'
    <2>1. \A v, w \in Users : v # w /\ user'[v].pc \in {"run", "commit"}
                              /\ user'[w].pc \in {"run", "commit"} => user'[v].conn # user'[w].conn
      <3>1. \A v \in Users \ {u} : user'[v].pc \in {"run", "commit"} => user'[v].conn # k
        BY <1>5, <1>8 DEF Holds
      <3>2. \A v, w \in Users \ {u} : v # w /\ user'[v].pc \in {"run", "commit"}
                              /\ user'[w].pc \in {"run", "commit"} => user'[v].conn # user'[w].conn
        BY <1>5 DEF PoolInv, ConnectionsConserved
      <3> QED BY <3>1, <3>2, <1>5
    <2>2. ASSUME ~closed
          PROVE  Len(pools'[Len(pools)]) + Cardinality(InUse(Len(pools))') = PoolSize
      <3>1. /\ Len(pools[Len(pools)]) + Cardinality(InUse(Len(pools))) = PoolSize
            /\ Len(pools) \in DOMAIN pools
            /\ Len(pools[Len(pools)]) \in Nat
        BY <2>2, QueueKnown DEF PoolInv, ConnectionsConserved
      <3>2. IsFiniteSet(InUse(Len(pools))) /\ Cardinality(InUse(Len(pools))) \in Nat
        BY PoolAssumption, FS_Subset, FS_CardinalityType DEF InUse
      <3>3. CASE p = Len(pools)
        <4>1. InUse(Len(pools))' = InUse(Len(pools)) \cup {u} /\ u \notin InUse(Len(pools))
          <5>1. u \notin InUse(Len(pools)) /\ u \in InUse(Len(pools))'
            BY <1>1, <1>5, <1>4, <3>3 DEF InUse, Holds
          <5>2. \A v \in Users \ {u} : v \in InUse(Len(pools))' <=> v \in InUse(Len(pools))
            BY <1>5, <1>4 DEF InUse
          <5> QED BY <5>1, <5>2 DEF InUse
        <4>2. Cardinality(InUse(Len(pools))') = Cardinality(InUse(Len(pools))) + 1
          BY <4>1, <3>2, FS_AddElement
        <4>3. pools'[Len(pools)] = Tail(q) /\ q = pools[Len(pools)]
          BY <3>1, <3>3, <1>4
        <4>4. Len(q) + Cardinality(InUse(Len(pools))) = PoolSize
          BY <4>3, <3>1
        <4>5. Len(Tail(q)) = Len(q) - 1 /\ Len(q) \in Nat
          BY <1>2, <1>3
        <4> HIDE DEF p, q
        <4> QED BY <4>2, <4>3, <4>4, <4>5, <3>2
      <3>4. CASE p # Len(pools)
        <4>1. InUse(Len(pools))' = InUse(Len(pools))
          <5>1. u \notin InUse(Len(pools)) /\ u \notin InUse(Len(pools))'
            BY <1>5, <1>4, <3>4 DEF InUse
          <5>2. \A v \in Users \ {u} : v \in InUse(Len(pools))' <=> v \in InUse(Len(pools))
            BY <1>5, <1>4 DEF InUse
          <5> QED BY <5>1, <5>2 DEF InUse
        <4> QED BY <4>1, <3>1, <3>4, <1>4
      <3> QED BY <3>3, <3>4
    <2>3. closed' = closed
      BY DEF Acquire
    <2> QED BY <2>1, <2>2, <2>3, <1>4 DEF ConnectionsConserved
  <1>11. PoolShape'
    BY <1>4, <1>5 DEF Acquire, PoolInv, PoolShape
  <1> QED BY <1>6, <1>9, <1>10, <1>11 DEF PoolInv

UserRecord == [pc : {"away", "connect", "queue", "run", "commit"},
               pool : 0 .. MaxPools, conn : Conns \cup {<<0, 0>>}, op : {"read", "write"}]

\* A user that neither gets nor gives back a connection disturbs nobody.
LEMMA SameHands ==
  ASSUME PoolInv, NEW u \in Users, NEW r \in UserRecord,
         UNCHANGED <<pools, closed>>, user' = [user EXCEPT ![u] = r],
         \/ /\ ~Holds(u) /\ r.pc \notin {"run", "commit"}
            /\ r.pc = "queue" => r.pool \in DOMAIN pools
         \/ /\ Holds(u) /\ r.pc \in {"run", "commit"}
            /\ r.pool = user[u].pool /\ r.conn = user[u].conn
  PROVE  /\ QueuesApart' /\ HandsApart' /\ ConnectionsConserved'
         /\ user' \in [Users -> UserRecord]
  <1>1. /\ user' \in [Users -> UserRecord]
        /\ user'[u] = r /\ \A v \in Users \ {u} : user'[v] = user[v]
    BY DEF PoolInv, PoolShape, UserRecord
  <1>2. QueuesApart'
    BY DEF QueuesApart, PoolInv
  <1>3. \A v \in Users : /\ Holds(v)' <=> Holds(v)
                         /\ Holds(v) => user'[v].pool = user[v].pool /\ user'[v].conn = user[v].conn
    BY <1>1 DEF Holds
  <1>4. HandsApart'
    <2> SUFFICES ASSUME NEW v \in Users
                 PROVE  /\ user'[v].pc = "queue" \/ Holds(v)' => user'[v].pool \in DOMAIN pools
                        /\ Holds(v)' =>
                             /\ user'[v].conn \in Conns /\ user'[v].conn[1] = user'[v].pool
                             /\ \A i \in DOMAIN pools[user'[v].pool] :
                                  pools[user'[v].pool][i] # user'[v].conn
      BY DEF HandsApart
    <2>1. /\ user[v].pc = "queue" \/ Holds(v) => user[v].pool \in DOMAIN pools
          /\ Holds(v) => /\ user[v].conn \in Conns /\ user[v].conn[1] = user[v].pool
                         /\ \A i \in DOMAIN pools[user[v].pool] : pools[user[v].pool][i] # user[v].conn
      BY DEF PoolInv, HandsApart
    <2>2. user'[v].pc = "queue" => user'[v].pool \in DOMAIN pools
      BY <1>1, <2>1 DEF Holds
    <2>3. /\ Holds(v)' <=> Holds(v)
          /\ Holds(v) => user'[v].pool = user[v].pool /\ user'[v].conn = user[v].conn
      BY <1>3
    <2>4. Holds(v) => \A i \in DOMAIN pools[user'[v].pool] :
                        pools[user'[v].pool][i] # user'[v].conn
      BY <2>1, <2>3
    <2> QED BY <2>1, <2>2, <2>3, <2>4
  <1>5. ConnectionsConserved'
    <2>1. \A v, w \in Users : v # w /\ user'[v].pc \in {"run", "commit"}
                              /\ user'[w].pc \in {"run", "commit"} => user'[v].conn # user'[w].conn
      BY <1>3 DEF PoolInv, ConnectionsConserved, Holds
    <2>2. InUse(Len(pools))' = InUse(Len(pools))
      <3>1. \A v \in Users : v \in InUse(Len(pools))' <=> v \in InUse(Len(pools))
        BY <1>3 DEF InUse, Holds
      <3> QED BY <3>1 DEF InUse
    <2> QED BY <2>1, <2>2 DEF PoolInv, ConnectionsConserved
  <1> QED BY <1>1, <1>2, <1>4, <1>5

\* A new pool is full and nobody uses it yet.
LEMMA ConnectApart ==
  ASSUME PoolInv, NEW u \in Users, Connect(u)
  PROVE  PoolInv'
  <1> DEFINE n == Len(pools) + 1
             q == [i \in 1 .. PoolSize |-> <<n, i>>]
  <1>1. /\ Len(pools) \in Nat /\ DOMAIN pools = 1 .. Len(pools) /\ n \in 1 .. MaxPools
        /\ MaxPools \in Nat /\ PoolSize \in Nat \ {0}
        /\ pools \in Seq(Seq(Conns))
    <2>1. /\ Len(pools) \in Nat /\ DOMAIN pools = 1 .. Len(pools)
      BY QueueKnown DEF PoolInv
    <2>2. pools \in Seq(Seq(Conns)) /\ Len(pools) < MaxPools
      BY DEF PoolInv, PoolShape, Connect
    <2> QED BY <2>1, <2>2, PoolAssumption
  <1>2. q \in Seq(Conns) /\ Len(q) = PoolSize /\ DOMAIN q = 1 .. PoolSize
        /\ \A i \in 1 .. PoolSize : q[i] = <<n, i>>
    <2>1. \A i \in 1 .. PoolSize : <<n, i>> \in Conns
      BY <1>1 DEF Conns
    <2> HIDE DEF n
    <2>2. q \in [1 .. PoolSize -> Conns]
      BY <2>1
    <2> QED BY <2>1, <2>2, <1>1
  <1>3. pools' = Append(pools, q)
    BY DEF Connect
  <1> HIDE DEF q
  <1>4. /\ pools' \in Seq(Seq(Conns)) /\ Len(pools') = n
        /\ DOMAIN pools' = DOMAIN pools \cup {n} /\ n \notin DOMAIN pools
        /\ \A p \in DOMAIN pools : pools'[p] = pools[p]
        /\ pools'[n] = q /\ pools' # <<>>
    <2>1. /\ pools' \in Seq(Seq(Conns)) /\ Len(pools') = Len(pools) + 1
          /\ \A p \in 1 .. Len(pools) : pools'[p] = pools[p]
          /\ pools'[Len(pools) + 1] = q
      BY <1>1, <1>2, <1>3, AppendProperties
    <2>2. DOMAIN pools' = 1 .. n
      BY <2>1, LenProperties
    <2>3. pools' # <<>>
      BY <2>1, <1>1
    <2>4. DOMAIN pools' = DOMAIN pools \cup {n} /\ n \notin DOMAIN pools
      BY <1>1, <2>2
    <2> QED BY <1>1, <2>1, <2>3, <2>4
  <1> HIDE DEF n
  <1>5. /\ user' \in [Users -> UserRecord]
        /\ ~Holds(u) /\ user'[u].pc = "queue" /\ user'[u].pool = n
        /\ \A v \in Users \ {u} : user'[v] = user[v]
    <2>1. user \in [Users -> UserRecord]
      BY DEF PoolInv, PoolShape, UserRecord
    <2>2. /\ user[u].pc = "connect"
          /\ user' = [user EXCEPT ![u] = [user[u] EXCEPT !.pc = "queue", !.pool = n]]
      BY <2>1 DEF Connect, n, UserRecord
    <2>3. n \in 0 .. MaxPools
      BY <1>1
    <2>4. [user[u] EXCEPT !.pc = "queue", !.pool = n] \in UserRecord
      BY <2>1, <2>3 DEF UserRecord
    <2>5. /\ [user[u] EXCEPT !.pc = "queue", !.pool = n].pc = "queue"
          /\ [user[u] EXCEPT !.pc = "queue", !.pool = n].pool = n
      BY <2>1 DEF UserRecord
    <2> QED BY <2>1, <2>2, <2>4, <2>5 DEF Holds
  <1>6. \A v \in Users : Holds(v)' => v # u /\ user'[v] = user[v] /\ Holds(v)
    BY <1>5 DEF Holds
  <1>7. \A v \in Users : Holds(v) => user[v].pool \in DOMAIN pools
    BY DEF PoolInv, HandsApart
  <1>8. QueuesApart'
    <2> SUFFICES ASSUME NEW r \in DOMAIN pools', NEW i \in DOMAIN pools'[r]
                 PROVE  /\ pools'[r][i][1] = r
                        /\ \A j \in DOMAIN pools'[r] : pools'[r][i] = pools'[r][j] => i = j
      BY DEF QueuesApart
    <2>1. CASE r = n
      BY <2>1, <1>2, <1>4
    <2>2. CASE r \in DOMAIN pools
      BY <2>2, <1>4 DEF PoolInv, QueuesApart
    <2> QED BY <2>1, <2>2, <1>4
  <1>9. HandsApart'
    <2> SUFFICES ASSUME NEW v \in Users
                 PROVE  /\ user'[v].pc = "queue" \/ Holds(v)' => user'[v].pool \in DOMAIN pools'
                        /\ Holds(v)' =>
                             /\ user'[v].conn \in Conns /\ user'[v].conn[1] = user'[v].pool
                             /\ \A i \in DOMAIN pools'[user'[v].pool] :
                                  pools'[user'[v].pool][i] # user'[v].conn
      BY DEF HandsApart
    <2>1. /\ user[v].pc = "queue" \/ Holds(v) => user[v].pool \in DOMAIN pools
          /\ Holds(v) => /\ user[v].conn \in Conns /\ user[v].conn[1] = user[v].pool
                         /\ \A i \in DOMAIN pools[user[v].pool] : pools[user[v].pool][i] # user[v].conn
      BY DEF PoolInv, HandsApart
    <2>2. user'[v].pc = "queue" => user'[v].pool \in DOMAIN pools'
      BY <2>1, <1>4, <1>5
    <2>3. Holds(v)' => pools'[user'[v].pool] = pools[user[v].pool]
      BY <1>4, <1>6, <1>7
    <2> QED BY <2>1, <2>2, <2>3, <1>4, <1>6
  <1>10. ConnectionsConserved'
    <2>1. \A v, w \in Users : v # w /\ user'[v].pc \in {"run", "commit"}
                              /\ user'[w].pc \in {"run", "commit"} => user'[v].conn # user'[w].conn
      BY <1>6 DEF PoolInv, ConnectionsConserved, Holds
    <2>2. InUse(Len(pools))' = {}
      <3>1. \A v \in Users : Holds(v)' => user'[v].pool # n
        BY <1>4, <1>6, <1>7
      <3> QED BY <3>1, <1>4 DEF InUse, Holds
    <2>3. Len(pools'[Len(pools')]) + 0 = PoolSize
      BY <1>1, <1>2, <1>4
    <2> QED BY <2>1, <2>2, <2>3, FS_EmptySet DEF ConnectionsConserved
  <1>11. PoolShape'
    <2>1. closed' \in BOOLEAN /\ UNCHANGED <<committed, cuts, tx, told>>
      BY DEF Connect
    <2>2. Len(pools') <= MaxPools
      BY <1>1, <1>4
    <2> QED BY <2>1, <2>2, <1>4, <1>5 DEF PoolInv, PoolShape, UserRecord
  <1> QED BY <1>8, <1>9, <1>10, <1>11 DEF PoolInv

\* Closing empties the queue; what is in use stays in use.
LEMMA CloseApart ==
  ASSUME PoolInv, ClosePool
  PROVE  PoolInv'
  <1> DEFINE n == Len(pools)
  <1>1. n \in DOMAIN pools
    <2>1. PoolShape /\ ~closed
      BY DEF PoolInv, ClosePool
    <2> HIDE DEF n
    <2>2. Len(pools) \in DOMAIN pools
      BY <2>1, QueueKnown
    <2> QED BY <2>2 DEF n
  <1>2. /\ pools' \in Seq(Seq(Conns)) /\ Len(pools') = Len(pools)
        /\ DOMAIN pools' = DOMAIN pools
        /\ pools' = <<>> => pools = <<>>
        /\ \A r \in DOMAIN pools : pools'[r] = IF r = n THEN <<>> ELSE pools[r]
    <2>1. pools' = [pools EXCEPT ![n] = <<>>] /\ <<>> \in Seq(Conns)
      BY EmptySeq DEF ClosePool
    <2> HIDE DEF n
    <2> QED BY <2>1, <1>1, QueueReplaced DEF PoolInv
  <1>3. user' = user /\ closed' = TRUE /\ UNCHANGED <<committed, told, cuts>>
    BY DEF ClosePool
  <1> HIDE DEF n
  <1>4. QueuesApart'
    <2> SUFFICES ASSUME NEW r \in DOMAIN pools, NEW i \in DOMAIN pools'[r]
                 PROVE  /\ pools'[r][i][1] = r
                        /\ \A j \in DOMAIN pools'[r] : pools'[r][i] = pools'[r][j] => i = j
      BY <1>2 DEF QueuesApart
    <2> QED BY <1>2 DEF PoolInv, QueuesApart
  <1>5. HandsApart'
    BY <1>2, <1>3 DEF PoolInv, HandsApart, Holds
  <1>6. ConnectionsConserved'
    BY <1>3 DEF PoolInv, ConnectionsConserved
  <1>7. tx' \in [Conns -> [open : BOOLEAN, reads : BOOLEAN,
                       seen : SUBSET committed', mine : SUBSET Users]]
    <2>1. NoTx \in [open : BOOLEAN, reads : BOOLEAN,
                       seen : SUBSET committed', mine : SUBSET Users]
      BY DEF NoTx
    <2> QED BY <2>1, <1>3 DEF PoolInv, PoolShape, ClosePool
  <1>8. PoolShape'
    BY <1>2, <1>3, <1>7 DEF PoolInv, PoolShape
  <1> QED BY <1>4, <1>5, <1>6, <1>8 DEF PoolInv

TxRecord(seen) == [open : BOOLEAN, reads : BOOLEAN, seen : SUBSET seen, mine : SUBSET Users]

LEMMA InsertedShape ==
  ASSUME PoolShape, NEW k \in Conns, NEW u \in Users
  PROVE  Inserted(k, u) \in TxRecord(committed)
  <1>1. tx[k] \in TxRecord(committed)
    BY DEF PoolShape, TxRecord
  <1> QED BY <1>1 DEF Inserted, TxRecord

\* What was committed stays so: a commit keeps every transaction what it is.
LEMMA CommitShape ==
  ASSUME PoolShape, NEW k \in Conns, Committed(k)
  PROVE  /\ committed' \subseteq Users /\ committed \subseteq committed'
         /\ tx' \in [Conns -> TxRecord(committed')]
  <1>1. tx \in [Conns -> TxRecord(committed)]
    BY DEF PoolShape, TxRecord
  <1>2. committed' = committed \cup tx[k].mine /\ tx' = [tx EXCEPT ![k] = NoTx]
    BY DEF Committed
  <1>3. tx[k].mine \subseteq Users /\ committed \subseteq Users
    BY <1>1 DEF TxRecord, PoolShape
  <1>4. \A j \in Conns : tx[j] \in TxRecord(committed')
    BY <1>1, <1>2 DEF TxRecord
  <1>5. NoTx \in TxRecord(committed')
    BY DEF NoTx, TxRecord
  <1> QED BY <1>1, <1>2, <1>3, <1>4, <1>5

LEMMA AwayShape == Away \in UserRecord
  <1>1. 0 \in 0 .. MaxPools
    BY PoolAssumption
  <1> QED BY <1>1 DEF Away, UserRecord

\* Putting a connection back, with its transaction as it is.
LEMMA ReturnStep ==
  ASSUME PoolInv, NEW u \in Users, Holds(u),
         NEW fate \in {"nothing", "failed", "in doubt", "done"}, Left(u, fate),
         closed' = closed, cuts' \in 0 .. MaxCuts, committed' \subseteq Users,
         tx' \in [Conns -> TxRecord(committed')]
  PROVE  PoolInv'
  <1>1. /\ QueuesApart' /\ HandsApart' /\ ConnectionsConserved'
        /\ pools' \in Seq(Seq(Conns)) /\ Len(pools') = Len(pools)
        /\ pools' = <<>> => pools = <<>>
    BY ReturnApart
  <1>2. user \in [Users -> UserRecord] /\ Away \in UserRecord
    BY AwayShape DEF PoolInv, PoolShape, UserRecord
  <1>3. user' \in [Users -> UserRecord]
    BY <1>2 DEF Left
  <1>4. told' \in [Users -> {"nothing", "failed", "in doubt", "done"}]
    BY DEF Left, PoolInv, PoolShape
  <1>5. PoolShape'
    BY <1>1, <1>3, <1>4 DEF PoolInv, PoolShape, UserRecord, TxRecord
  <1> QED BY <1>1, <1>5 DEF PoolInv

LEMMA UserKnown ==
  ASSUME PoolInv, NEW u \in Users
  PROVE  /\ user \in [Users -> UserRecord] /\ user[u] \in UserRecord /\ Away \in UserRecord
         /\ tx \in [Conns -> TxRecord(committed)]
         /\ Holds(u) => user[u].conn \in Conns /\ user[u].pool \in DOMAIN pools
         /\ committed \subseteq Users /\ cuts \in 0 .. MaxCuts
  <1>1. user \in [Users -> UserRecord] /\ Away \in UserRecord
    BY AwayShape DEF PoolInv, PoolShape, UserRecord
  <1>2. /\ tx \in [Conns -> TxRecord(committed)]
        /\ committed \subseteq Users /\ cuts \in 0 .. MaxCuts
    BY DEF PoolInv, PoolShape, TxRecord
  <1>3. Holds(u) => user[u].conn \in Conns /\ user[u].pool \in DOMAIN pools
    BY DEF PoolInv, HandsApart
  <1> QED BY <1>1, <1>2, <1>3

LEMMA EnterStep ==
  ASSUME PoolInv, NEW u \in Users, NEW op \in {"read", "write"}, Enter(u, op)
  PROVE  PoolInv'
  <1> DEFINE r == IF closed THEN [Away EXCEPT !.pc = "connect", !.op = op]
                  ELSE [Away EXCEPT !.pc = "queue", !.pool = Len(pools), !.op = op]
  <1>1. Len(pools) \in Nat /\ Len(pools) <= MaxPools /\ MaxPools \in Nat
        /\ (~closed => Len(pools) \in DOMAIN pools)
    BY QueueKnown, PoolAssumption DEF PoolInv, PoolShape
  <1>2. r \in UserRecord /\ r.pc \in {"connect", "queue"}
        /\ (r.pc = "queue" => ~closed /\ r.pool = Len(pools))
    <2>1. CASE closed
      <3>1. r = [Away EXCEPT !.pc = "connect", !.op = op]
        BY <2>1
      <3>2. r \in UserRecord
        BY <3>1, AwayShape DEF UserRecord
      <3> QED BY <3>1, <3>2, AwayShape DEF UserRecord
    <2>2. CASE ~closed
      <3>1. r = [Away EXCEPT !.pc = "queue", !.pool = Len(pools), !.op = op]
        BY <2>2
      <3>2. Len(pools) \in 0 .. MaxPools
        BY <1>1
      <3>3. r \in UserRecord
        BY <3>1, <3>2, AwayShape DEF UserRecord
      <3> QED BY <2>2, <3>1, <3>3, AwayShape DEF UserRecord
    <2> QED BY <2>1, <2>2
  <1>3. /\ user' = [user EXCEPT ![u] = r] /\ ~Holds(u)
        /\ UNCHANGED <<pools, closed, tx, committed, told, cuts>>
    BY DEF Enter, Holds
  <1> HIDE DEF r
  <1>4. /\ QueuesApart' /\ HandsApart' /\ ConnectionsConserved'
        /\ user' \in [Users -> UserRecord]
    BY <1>1, <1>2, <1>3, SameHands
  <1>5. PoolShape'
    BY <1>3, <1>4 DEF PoolInv, PoolShape, UserRecord
  <1> QED BY <1>4, <1>5 DEF PoolInv

LEMMA ReadStep ==
  ASSUME PoolInv, NEW u \in Users, Read(u)
  PROVE  PoolInv'
  <1> DEFINE k == user[u].conn
  <1>1. Holds(u) /\ k \in Conns /\ tx \in [Conns -> TxRecord(committed)]
        /\ committed \subseteq Users /\ cuts \in 0 .. MaxCuts
    BY UserKnown DEF Read, Holds
  <1>2. UNCHANGED <<closed, committed, cuts>> /\ Left(u, "nothing")
    BY DEF Read
  <1>3. tx' \in [Conns -> TxRecord(committed')]
    <2>1. tx' = tx \/ tx' = [tx EXCEPT ![k] = [tx[k] EXCEPT !.reads = TRUE, !.seen = committed]]
      BY <1>1 DEF Read
    <2>2. [tx[k] EXCEPT !.reads = TRUE, !.seen = committed] \in TxRecord(committed)
      BY <1>1 DEF TxRecord
    <2> QED BY <1>1, <1>2, <2>1, <2>2
  <1> QED BY <1>1, <1>2, <1>3, ReturnStep

LEMMA WriteStep ==
  ASSUME PoolInv, NEW u \in Users, Write(u)
  PROVE  PoolInv'
  <1> DEFINE k == user[u].conn
             r == [user[u] EXCEPT !.pc = "commit"]
  <1>1. Holds(u) /\ k \in Conns /\ tx \in [Conns -> TxRecord(committed)]
        /\ committed \subseteq Users /\ cuts \in 0 .. MaxCuts
        /\ user \in [Users -> UserRecord] /\ user[u] \in UserRecord
    BY UserKnown DEF Write, Holds
  <1>2. UNCHANGED <<closed, committed, cuts>>
    BY DEF Write
  <1>3. tx' \in [Conns -> TxRecord(committed')]
    <2>1. Inserted(k, u) \in TxRecord(committed)
      BY <1>1, InsertedShape DEF PoolInv
    <2> QED BY <1>1, <1>2, <2>1 DEF Write
  <1>4. CASE Left(u, "failed")
    BY <1>1, <1>2, <1>3, <1>4, ReturnStep
  <1>5. CASE user' = [user EXCEPT ![u].pc = "commit"] /\ UNCHANGED <<pools, told>>
    <2>1. user' = [user EXCEPT ![u] = r] /\ r \in UserRecord
          /\ r.pc = "commit" /\ r.pool = user[u].pool /\ r.conn = user[u].conn
      BY <1>1, <1>5 DEF UserRecord
    <2> HIDE DEF r
    <2>2. /\ QueuesApart' /\ HandsApart' /\ ConnectionsConserved'
          /\ user' \in [Users -> UserRecord]
      BY <2>1, <1>1, <1>2, <1>5, SameHands
    <2>3. PoolShape'
      BY <1>2, <1>3, <1>5, <2>2 DEF PoolInv, PoolShape, UserRecord, TxRecord
    <2> QED BY <2>2, <2>3 DEF PoolInv
  <1> QED BY <1>4, <1>5 DEF Write

LEMMA CommitStep ==
  ASSUME PoolInv, NEW u \in Users, Commit(u)
  PROVE  PoolInv'
  <1>1. Holds(u) /\ user[u].conn \in Conns /\ cuts \in 0 .. MaxCuts
    BY UserKnown DEF Commit, Holds
  <1>2. UNCHANGED <<closed, cuts>> /\ Left(u, "done") /\ Committed(user[u].conn)
    BY DEF Commit
  <1>3. tx' \in [Conns -> TxRecord(committed')] /\ committed' \subseteq Users
    BY <1>1, <1>2, CommitShape DEF PoolInv
  <1> QED BY <1>1, <1>2, <1>3, ReturnStep

LEMMA CutStep ==
  ASSUME PoolInv, NEW u \in Users, Cut(u)
  PROVE  PoolInv'
  <1> DEFINE k == user[u].conn
  <1>1. /\ tx \in [Conns -> TxRecord(committed)] /\ committed \subseteq Users
        /\ user[u] \in UserRecord /\ Away \in UserRecord
        /\ Holds(u) => k \in Conns
        /\ cuts' \in 0 .. MaxCuts /\ closed' = closed
    <2>1. cuts < MaxCuts /\ cuts' = cuts + 1 /\ closed' = closed
      BY DEF Cut
    <2>2. cuts \in 0 .. MaxCuts
      BY UserKnown
    <2>3. cuts' \in 0 .. MaxCuts
      BY <2>1, <2>2, PoolAssumption
    <2> QED BY <2>1, <2>3, UserKnown
  <1>2. CASE user[u].pc \in {"connect", "queue"}
    <2>1. /\ user' = [user EXCEPT ![u] = Away] /\ ~Holds(u) /\ Away.pc = "away"
          /\ told' \in [Users -> {"nothing", "failed", "in doubt", "done"}]
          /\ UNCHANGED <<pools, tx, committed>>
      BY <1>2 DEF Cut, Holds, Away, PoolInv, PoolShape
    <2>2. /\ QueuesApart' /\ HandsApart' /\ ConnectionsConserved'
          /\ user' \in [Users -> UserRecord]
      BY <2>1, <1>1, SameHands
    <2>3. PoolShape'
      BY <1>1, <2>1, <2>2 DEF PoolInv, PoolShape, UserRecord, TxRecord
    <2> QED BY <2>2, <2>3 DEF PoolInv
  <1>3. CASE user[u].pc = "run"
    <2>1. /\ tx' = IF user[u].op = "write" THEN [tx EXCEPT ![k] = Inserted(k, u)] ELSE tx
          /\ Left(u, "failed") /\ UNCHANGED committed /\ Holds(u)
      BY <1>3 DEF Cut, Holds
    <2>2. tx' \in [Conns -> TxRecord(committed')]
      <3>1. Inserted(k, u) \in TxRecord(committed)
        BY <1>1, <2>1, InsertedShape DEF PoolInv
      <3> QED BY <1>1, <2>1, <3>1
    <2> QED BY <1>1, <2>1, <2>2, ReturnStep
  <1>4. CASE user[u].pc = "commit"
    <2>1. Committed(k) /\ Left(u, "in doubt") /\ Holds(u)
      BY <1>4 DEF Cut, Holds
    <2>2. tx' \in [Conns -> TxRecord(committed')] /\ committed' \subseteq Users
      BY <1>1, <2>1, CommitShape DEF PoolInv
    <2> QED BY <1>1, <2>1, <2>2, ReturnStep
  <1> QED BY <1>1, <1>2, <1>3, <1>4 DEF Cut, UserRecord

LEMMA PoolStep == PoolInv /\ [PoolNext]_poolVars => PoolInv'
  <1> SUFFICES ASSUME PoolInv, [PoolNext]_poolVars PROVE PoolInv'
    OBVIOUS
  <1>1. ASSUME NEW u \in Users, NEW op \in {"read", "write"}, Enter(u, op) PROVE PoolInv'
    BY <1>1, EnterStep
  <1>2. ASSUME NEW u \in Users, Connect(u) PROVE PoolInv'
    BY <1>2, ConnectApart
  <1>3. ASSUME NEW u \in Users, Acquire(u) PROVE PoolInv'
    BY <1>3, AcquireApart
  <1>4. ASSUME NEW u \in Users, Read(u) PROVE PoolInv'
    BY <1>4, ReadStep
  <1>5. ASSUME NEW u \in Users, Write(u) PROVE PoolInv'
    BY <1>5, WriteStep
  <1>6. ASSUME NEW u \in Users, Commit(u) PROVE PoolInv'
    BY <1>6, CommitStep
  <1>7. ASSUME NEW u \in Users, Cut(u) PROVE PoolInv'
    BY <1>7, CutStep
  <1>8. CASE ClosePool
    BY <1>8, CloseApart
  <1>9. CASE UNCHANGED poolVars
    <2> USE <1>9 DEF poolVars
    <2>1. PoolShape'
      BY DEF PoolInv, PoolShape
    <2>2. QueuesApart'
      BY DEF PoolInv, QueuesApart
    <2>3. HandsApart'
      BY DEF PoolInv, HandsApart, Holds
    <2>4. ConnectionsConserved'
      <3>1. InUse(Len(pools))' = InUse(Len(pools))
        BY DEF InUse
      <3> QED BY <3>1 DEF PoolInv, ConnectionsConserved
    <2> QED BY <2>1, <2>2, <2>3, <2>4 DEF PoolInv
  <1> QED BY <1>1, <1>2, <1>3, <1>4, <1>5, <1>6, <1>7, <1>8, <1>9 DEF PoolNext

LEMMA PoolStart == PoolInit => PoolInv
  <1> SUFFICES ASSUME PoolInit PROVE PoolInv
    OBVIOUS
  <1>1. <<>> \in Seq(Seq(Conns)) /\ Len(<<>>) = 0
    BY EmptySeq
  <1>2. DOMAIN <<>> = {}
    OBVIOUS
  <1>3. PoolShape
    BY <1>1, PoolAssumption DEF PoolInit, PoolShape, Away, NoTx
  <1>4. \A u \in Users : user[u].pc = "away"
    BY DEF PoolInit, Away
  <1>5. QueuesApart /\ HandsApart /\ ConnectionsConserved
    BY <1>2, <1>4 DEF PoolInit, QueuesApart, HandsApart, Holds, ConnectionsConserved
  <1> QED BY <1>3, <1>5 DEF PoolInv

THEOREM PoolInvariant == PoolSpec => []PoolInv
  BY PoolStart, PoolStep, PTL DEF PoolSpec

\* However methods fail, are cancelled, or close the pool under one another,
\* no connection of it is lost or in two hands (Storage's _acquire/_release).
THEOREM ConnectionsAreConserved == PoolSpec => []ConnectionsConserved
  <1>1. PoolInv => ConnectionsConserved
    BY DEF PoolInv
  <1> QED BY <1>1, PoolInvariant, PTL

THEOREM PoolTyped == PoolSpec => []PoolTypeOK
  <1>1. PoolInv => PoolTypeOK
    BY DEF PoolInv, PoolShape, PoolTypeOK
  <1> QED BY <1>1, PoolInvariant, PTL

DurableInv == RowsPending /\ AnsweredDurable

\* Steps that neither write nor commit.
LEMMA SameRows ==
  ASSUME DurableInv, committed' = committed,
         \A k \in Conns : tx'[k].mine = tx[k].mine,
         \A u \in Users :
           /\ user'[u].pc = "commit" =>
                /\ user[u].pc = "commit" /\ user'[u].conn = user[u].conn
                /\ user[u].conn \in Conns
           /\ told'[u] = "done" => told[u] = "done"
  PROVE  DurableInv'
  <1>1. RowsPending'
    BY DEF DurableInv, RowsPending
  <1>2. AnsweredDurable'
    BY DEF DurableInv, AnsweredDurable
  <1> QED BY <1>1, <1>2 DEF DurableInv

\* A row is only pending where no other connection has one.
LEMMA InsertedRows ==
  ASSUME PoolInv, DurableInv, NEW k \in Conns, NEW u \in Users, committed' = committed,
         tx' = [tx EXCEPT ![k] = Inserted(k, u)],
         \A v \in Users :
           /\ user'[v].pc = "commit" =>
                \/ user[v].pc = "commit" /\ user'[v].conn = user[v].conn
                \/ user'[v].conn = k /\ v \in tx'[k].mine
           /\ told'[v] = "done" => told[v] = "done"
  PROVE  DurableInv'
  <1>1. tx \in [Conns -> TxRecord(committed)]
    BY DEF PoolInv, PoolShape, TxRecord
  <1>2. /\ tx'[k] = Inserted(k, u) /\ tx[k] \in TxRecord(committed)
        /\ \A j \in Conns \ {k} : tx'[j] = tx[j]
    BY <1>1
  <1>3. /\ tx[k].mine \subseteq tx'[k].mine
        /\ tx'[k].mine = tx[k].mine \/ ~Locked(k)
    BY <1>2 DEF Inserted, TxRecord
  <1>4. \A v \in Users : user[v].pc = "commit" => user[v].conn \in Conns
    BY DEF PoolInv, HandsApart, Holds
  <1>5. RowsPending'
    BY <1>2, <1>3, <1>4 DEF DurableInv, RowsPending
  <1>6. \A j, l \in Conns : tx'[j].mine # {} /\ tx'[l].mine # {} => j = l
    <2>1. CASE tx'[k].mine = tx[k].mine
      BY <2>1, <1>2 DEF DurableInv, AnsweredDurable
    <2>2. CASE ~Locked(k)
      BY <2>2, <1>2 DEF Locked
    <2> QED BY <2>1, <2>2, <1>3
  <1>7. AnsweredDurable'
    BY <1>6 DEF DurableInv, AnsweredDurable
  <1> QED BY <1>5, <1>7 DEF DurableInv

\* A commit takes in the rows of its connection, its user's among them.
LEMMA CommittedRows ==
  ASSUME PoolInv, DurableInv, NEW u \in Users, user[u].pc = "commit",
         Committed(user[u].conn), NEW fate, Left(u, fate)
  PROVE  DurableInv'
  <1> DEFINE k == user[u].conn
  <1>1. tx \in [Conns -> TxRecord(committed)] /\ k \in Conns
        /\ user \in [Users -> UserRecord]
    BY UserKnown DEF Holds
  <1>2. /\ user'[u] = Away /\ \A v \in Users \ {u} : user'[v] = user[v]
        /\ \A v \in Users : told'[v] = "done" => v = u \/ told[v] = "done"
    BY <1>1 DEF Left, PoolInv, PoolShape
  <1>3. /\ committed' = committed \cup tx[k].mine
        /\ tx'[k] = NoTx /\ \A j \in Conns \ {k} : tx'[j] = tx[j]
    BY <1>1 DEF Committed
  <1>4. u \in tx[k].mine
    BY DEF DurableInv, RowsPending
  <1>5. \A v \in Users \ {u} : user[v].pc = "commit" => user[v].conn # k /\ user[v].conn \in Conns
    BY DEF PoolInv, ConnectionsConserved, HandsApart, Holds
  <1>6. RowsPending'
    BY <1>2, <1>3, <1>5 DEF DurableInv, RowsPending, Away
  <1>7. \A v \in Users : told'[v] = "done" => v \in committed'
    BY <1>2, <1>3, <1>4 DEF DurableInv, AnsweredDurable
  <1>8. \A j, l \in Conns : tx'[j].mine # {} /\ tx'[l].mine # {} => j = l
    <2>1. \A j \in Conns : tx'[j].mine # {} => tx'[j] = tx[j]
      BY <1>3 DEF NoTx
    <2> QED BY <2>1 DEF DurableInv, AnsweredDurable
  <1> QED BY <1>6, <1>7, <1>8 DEF DurableInv, AnsweredDurable

\* Closing the pool rolls back what was left open on idle connections only.
LEMMA ClosedRows ==
  ASSUME PoolInv, DurableInv, ClosePool
  PROVE  DurableInv'
  <1> DEFINE n == Len(pools)
             idle(k) == \E i \in DOMAIN pools[n] : pools[n][i] = k
  <1>1. n \in DOMAIN pools
    <2>1. PoolShape /\ ~closed
      BY DEF PoolInv, ClosePool
    <2> HIDE DEF n
    <2>2. Len(pools) \in DOMAIN pools
      BY <2>1, QueueKnown
    <2> QED BY <2>2 DEF n
  <1>2. /\ \A k \in Conns : tx'[k] = IF idle(k) THEN NoTx ELSE tx[k]
        /\ UNCHANGED <<committed, user, told>>
    BY DEF ClosePool
  <1> HIDE DEF n
  <1>3. ASSUME NEW u \in Users, user[u].pc = "commit"
        PROVE  user[u].conn \in Conns /\ ~idle(user[u].conn)
    <2>1. /\ user[u].conn \in Conns /\ user[u].conn[1] = user[u].pool
          /\ \A i \in DOMAIN pools[user[u].pool] : pools[user[u].pool][i] # user[u].conn
      BY <1>3 DEF PoolInv, HandsApart, Holds
    <2>2. \A i \in DOMAIN pools[n] : pools[n][i][1] = n
      BY <1>1 DEF PoolInv, QueuesApart
    <2> QED BY <2>1, <2>2
  <1> HIDE DEF idle
  <1>4. RowsPending'
    BY <1>2, <1>3 DEF DurableInv, RowsPending
  <1>5. \A j \in Conns : tx'[j].mine # {} => tx'[j] = tx[j]
    BY <1>2 DEF NoTx
  <1>6. AnsweredDurable'
    BY <1>2, <1>5 DEF DurableInv, AnsweredDurable
  <1> QED BY <1>4, <1>6 DEF DurableInv

LEMMA DurableStep == PoolInv /\ DurableInv /\ [PoolNext]_poolVars => DurableInv'
  <1> SUFFICES ASSUME PoolInv, DurableInv, [PoolNext]_poolVars PROVE DurableInv'
    OBVIOUS
  <1>1. /\ user \in [Users -> UserRecord] /\ tx \in [Conns -> TxRecord(committed)]
        /\ told \in [Users -> {"nothing", "failed", "in doubt", "done"}]
    BY DEF PoolInv, PoolShape, UserRecord, TxRecord
  <1>2. \A u \in Users : Holds(u) => user[u].conn \in Conns
    BY DEF PoolInv, HandsApart
  <1>3. ASSUME NEW u \in Users, NEW op \in {"read", "write"}, Enter(u, op) PROVE DurableInv'
    <2>1. \A v \in Users : user'[v].pc = "commit" => user'[v] = user[v]
      BY <1>1, <1>3 DEF Enter, Away
    <2> QED BY <2>1, <1>2, <1>3, SameRows DEF Enter, Holds
  <1>4. ASSUME NEW u \in Users, Connect(u) PROVE DurableInv'
    <2>1. \A v \in Users : user'[v].pc = "commit" => user'[v] = user[v]
      BY <1>1, <1>4 DEF Connect, UserRecord
    <2> QED BY <2>1, <1>2, <1>4, SameRows DEF Connect, Holds
  <1>5. ASSUME NEW u \in Users, Acquire(u) PROVE DurableInv'
    <2>1. \A v \in Users : user'[v].pc = "commit" => user'[v] = user[v]
      BY <1>1, <1>5 DEF Acquire, UserRecord
    <2> QED BY <2>1, <1>2, <1>5, SameRows DEF Acquire, Holds
  <1>6. ASSUME NEW u \in Users, Read(u) PROVE DurableInv'
    <2>1. \A v \in Users : /\ user'[v].pc = "commit" => user'[v] = user[v]
                           /\ told'[v] = "done" => told[v] = "done"
      BY <1>1, <1>6 DEF Read, Left, Away
    <2>2. \A k \in Conns : tx'[k].mine = tx[k].mine
      BY <1>1, <1>6 DEF Read, TxRecord
    <2> QED BY <2>1, <2>2, <1>2, <1>6, SameRows DEF Read, Holds
  <1>7. ASSUME NEW u \in Users, Write(u) PROVE DurableInv'
    <2> DEFINE k == user[u].conn
    <2>1. k \in Conns /\ tx' = [tx EXCEPT ![k] = Inserted(k, u)] /\ committed' = committed
      BY <1>2, <1>7 DEF Write, Holds
    <2>2. \A v \in Users :
            /\ user'[v].pc = "commit" =>
                 \/ user[v].pc = "commit" /\ user'[v].conn = user[v].conn
                 \/ user'[v].conn = k /\ v \in tx'[k].mine
            /\ told'[v] = "done" => told[v] = "done"
      <3>1. CASE u \in tx'[k].mine
        <4>1. /\ user' = [user EXCEPT ![u] = [user[u] EXCEPT !.pc = "commit"]]
              /\ told' = told /\ user[u] \in UserRecord
          <5>1. user' = [user EXCEPT ![u].pc = "commit"] /\ UNCHANGED <<pools, told>>
            BY <3>1, <1>7 DEF Write
          <5> QED BY <5>1, <1>1
        <4>2. user'[u].conn = k /\ \A v \in Users \ {u} : user'[v] = user[v]
          BY <4>1, <1>1 DEF UserRecord
        <4> QED BY <3>1, <4>1, <4>2
      <3>2. CASE u \notin tx'[k].mine
        <4>1. Left(u, "failed")
          BY <3>2, <1>7 DEF Write
        <4>2. \A v \in Users : /\ user'[v].pc = "commit" => user'[v] = user[v]
                               /\ told'[v] = "done" => told[v] = "done"
          BY <4>1, <1>1 DEF Left, Away
        <4> QED BY <4>2
      <3> QED BY <3>1, <3>2
    <2> HIDE DEF k
    <2> QED BY <2>1, <2>2, InsertedRows
  <1>8. ASSUME NEW u \in Users, Commit(u) PROVE DurableInv'
    BY <1>8, CommittedRows DEF Commit
  <1>9. ASSUME NEW u \in Users, Cut(u) PROVE DurableInv'
    <2> DEFINE k == user[u].conn
    <2>1. CASE user[u].pc = "commit"
      BY <2>1, <1>9, CommittedRows DEF Cut
    <2>2. CASE user[u].pc = "run"
      <3>1. Left(u, "failed") /\ committed' = committed /\ k \in Conns
            /\ tx' = IF user[u].op = "write" THEN [tx EXCEPT ![k] = Inserted(k, u)] ELSE tx
        BY <2>2, <1>2, <1>9 DEF Cut, Holds
      <3>2. \A v \in Users : /\ user'[v].pc = "commit" => user'[v] = user[v]
                             /\ told'[v] = "done" => told[v] = "done"
        BY <1>1, <3>1 DEF Left, Away
      <3>3. CASE user[u].op = "write"
        BY <3>1, <3>2, <3>3, InsertedRows
      <3>4. CASE user[u].op # "write"
        BY <3>1, <3>2, <3>4, <1>2, SameRows DEF Holds
      <3> QED BY <3>3, <3>4
    <2>3. CASE user[u].pc \in {"connect", "queue"}
      <3>1. /\ user' = [user EXCEPT ![u] = Away] /\ UNCHANGED <<tx, committed>>
            /\ told' = IF user[u].op = "write" THEN [told EXCEPT ![u] = "failed"] ELSE told
        BY <2>3, <1>9 DEF Cut
      <3>2. \A v \in Users : /\ user'[v].pc = "commit" => user'[v] = user[v]
                             /\ told'[v] = "done" => told[v] = "done"
        BY <1>1, <3>1 DEF Away
      <3> QED BY <3>1, <3>2, <1>2, SameRows DEF Holds
    <2> QED BY <1>1, <1>9, <2>1, <2>2, <2>3 DEF Cut, UserRecord
  <1>10. CASE ClosePool
    BY <1>10, ClosedRows
  <1>11. CASE UNCHANGED poolVars
    BY <1>2, <1>11, SameRows DEF poolVars, Holds
  <1> QED BY <1>3, <1>4, <1>5, <1>6, <1>7, <1>8, <1>9, <1>10, <1>11 DEF PoolNext

\* A method that returned has its row in the database, and no two connections
\* hold rows at once: the lock is on the rows, and the connection a writer
\* commits on is nobody else's (the write methods of storage.py).
THEOREM AnswersAreDurable == PoolSpec => []AnsweredDurable
  <1>1. PoolInit => DurableInv
    BY DEF PoolInit, DurableInv, RowsPending, AnsweredDurable, Away, NoTx
  <1>2. DurableInv => AnsweredDurable
    BY DEF DurableInv
  <1> QED BY <1>1, <1>2, DurableStep, PoolInvariant, PTL DEF PoolSpec

-----------------------------------------------------------------------------
LEMMA MaxOfTwo ==
  ASSUME NEW a \in Int, NEW b \in Int
  PROVE  Max({a, b}) \in Int /\ Max({a, b}) >= a /\ Max({a, b}) >= b /\ Max({a, b}) \in {a, b}
  <1>1. \E x \in {a, b} : \A y \in {a, b} : x >= y
    <2>1. CASE a >= b
      BY <2>1
    <2>2. CASE b >= a
      BY <2>2
    <2> QED BY <2>1, <2>2
  <1>2. Max({a, b}) \in {a, b} /\ \A y \in {a, b} : Max({a, b}) >= y
    BY <1>1 DEF Max
  <1> QED BY <1>2

LEMMA MinOfTwo ==
  ASSUME NEW a \in Int, NEW b \in Int
  PROVE  Min({a, b}) \in Int /\ Min({a, b}) <= a /\ Min({a, b}) <= b /\ Min({a, b}) \in {a, b}
  <1>1. \E x \in {a, b} : \A y \in {a, b} : x =< y
    <2>1. CASE a <= b
      BY <2>1
    <2>2. CASE b <= a
      BY <2>2
    <2> QED BY <2>1, <2>2
  <1>2. Min({a, b}) \in {a, b} /\ \A y \in {a, b} : Min({a, b}) =< y
    BY <1>1 DEF Min
  <1> QED BY <1>2

LEMMA WithinBounds ==
  ASSUME NEW low \in Int, NEW high \in Int, NEW n \in Int, low <= high
  PROVE  Within(low, high, n) \in Int /\ low <= Within(low, high, n) /\ Within(low, high, n) <= high
  <1>1. Min({high, n}) \in Int /\ Min({high, n}) <= high
    BY MinOfTwo
  <1> DEFINE m == Min({high, n})
  <1> HIDE DEF m
  <1>2. m \in Int /\ m <= high
    BY <1>1 DEF m
  <1>3. Max({low, m}) \in {low, m} /\ Max({low, m}) >= low
    BY <1>2, MaxOfTwo
  <1> QED BY <1>2, <1>3 DEF Within, m

LEMMA Quotients ==
  ASSUME NEW a \in Int, NEW b \in Int, b > 0
  PROVE  a \div b \in Int
  OBVIOUS

LEMMA Products ==
  ASSUME NEW a \in Int, NEW b \in Int
  PROVE  a * b \in Int /\ (a > 0 /\ b > 0 => a * b > 0)
  OBVIOUS

\* Every set of numbers has a least one, so there is a nearest zone.
LEMMA LeastNumber ==
  ASSUME NEW T \in SUBSET Nat, T # {}
  PROVE  \E x \in T : \A y \in T : x <= y
  <1> DEFINE R == {ss \in Nat \X Nat : ss[1] < ss[2]}
  <1>1. IsWellFoundedOn(R, Nat)
    BY NatLessThanWellFounded DEF OpToRel
  <1>2. \A x \in Nat : \A y \in Nat : <<y, x>> \in R <=> y < x
    OBVIOUS
  <1> HIDE DEF R
  <1>3. PICK x \in T : \A y \in T : ~ (<<y, x>> \in R)
    BY <1>1, WFMin
  <1>4. \A y \in T : ~(y < x)
    BY <1>2, <1>3
  <1> QED BY <1>4

LEMMA NearestAbove ==
  ASSUME NEW Z \in SUBSET Nat, Z # {}
  PROVE  Min(Z) \in Z /\ \A y \in Z : Min(Z) <= y
  <1>1. \E x \in Z : \A y \in Z : x <= y
    BY LeastNumber
  <1> QED BY <1>1 DEF Min

LEMMA NearestBelow ==
  ASSUME NEW Z \in SUBSET Int, Z # {}, \A z \in Z : z <= 0
  PROVE  Max(Z) \in Z /\ \A y \in Z : Max(Z) >= y
  <1> DEFINE T == {-z : z \in Z}
  <1>1. T \in SUBSET Nat /\ T # {}
    <2>1. \A z \in Z : -z \in Nat
      OBVIOUS
    <2> QED BY <2>1
  <1>2. PICK x \in T : \A y \in T : x <= y
    BY <1>1, LeastNumber
  <1>3. PICK z \in Z : x = -z
    BY <1>2
  <1>4. \A y \in Z : z >= y
    <2> TAKE y \in Z
    <2>1. -z <= -y
      BY <1>2, <1>3
    <2> QED BY <2>1
  <1> QED BY <1>3, <1>4 DEF Max

-----------------------------------------------------------------------------
\* What can be proposed: the proposals of a run, and what they would be in other
\* circumstances.
CautionFields ==
  {"losses", "down", "swings", "strength", "lift", "uncertain", "gbp", "chf", "limits", "alarm",
   "tolerance", "atr"}
Plausible(p) ==
  /\ CautionFields \subseteq DOMAIN p
  /\ p.direction \in {"BUY", "SELL", "WAIT"} /\ p.atr \in Nat /\ p.usual \in Nat
  /\ p.support \in Seq(Int) /\ p.resistance \in Seq(Int) /\ p.zones \subseteq Int
  /\ p.intent \in -1 .. 100 /\ p.lift \in 0 .. 100 /\ p.tolerance \in 1 .. 3
  /\ p.losses \in Nat /\ p.down \in Nat /\ p.gbp \in -1 .. 1 /\ p.chf \in -1 .. 1
  /\ p.strength \in 0 .. 100 /\ p.swings \in Nat \ {0} /\ p.account \in Nat
  /\ p.record.trades \in Nat /\ p.record.won \in Nat /\ p.record.gain \in Nat
  /\ p.record.loss \in Nat /\ p.record.won <= p.record.trades
  /\ (p.record.won > 0 => p.record.gain > 0)
  /\ {p.alarm, p.volatile, p.uncertain, p.limits} \subseteq BOOLEAN

LEMMA Proposed == ASSUME NEW p \in Proposals PROVE Plausible(p)
  <1>1. p \in Proposal
    BY SizingAssumption DEF SizingAssumption
  <1>2. p.record \in [trades : Nat, won : Nat, gain : Nat, loss : Nat]
    BY <1>1 DEF Proposal
  <1>3. p.record.won <= p.record.trades /\ (p.record.won > 0 => p.record.gain > 0)
    BY SizingAssumption DEF SizingAssumption
  <1>4. /\ p.direction \in {"BUY", "SELL", "WAIT"} /\ p.atr \in Nat /\ p.usual \in Nat
        /\ p.support \in Seq(Int) /\ p.resistance \in Seq(Int)
    BY <1>1 DEF Proposal
  <1>5. p.zones \subseteq Int /\ p.intent \in -1 .. 100 /\ p.lift \in 0 .. 100
    BY <1>1 DEF Proposal
  <1>6. /\ p.tolerance \in 1 .. 3
        /\ p.losses \in Nat /\ p.down \in Nat /\ p.gbp \in -1 .. 1 /\ p.chf \in -1 .. 1
    BY <1>1 DEF Proposal
  <1>7. p.strength \in 0 .. 100 /\ p.swings \in Nat \ {0} /\ p.account \in Nat
    BY <1>1 DEF Proposal
  <1>8. {p.alarm, p.volatile, p.uncertain, p.limits} \subseteq BOOLEAN
    BY <1>1 DEF Proposal
  <1>9. CautionFields \subseteq DOMAIN p
    BY <1>1 DEF Proposal, CautionFields
  <1> QED BY <1>2, <1>3, <1>4, <1>5, <1>6, <1>7, <1>8, <1>9 DEF Plausible

LEMMA Fields ==
  ASSUME NEW p, Plausible(p)
  PROVE  /\ p.direction \in {"BUY", "SELL", "WAIT"} /\ p.atr \in Nat /\ p.usual \in Nat
         /\ p.support \in Seq(Int) /\ p.resistance \in Seq(Int) /\ p.zones \subseteq Int
         /\ p.intent \in -1 .. 100 /\ p.lift \in 0 .. 100 /\ p.tolerance \in 1 .. 3
         /\ p.losses \in Nat /\ p.down \in Nat /\ p.gbp \in -1 .. 1 /\ p.chf \in -1 .. 1
         /\ p.strength \in 0 .. 100 /\ p.swings \in Nat \ {0} /\ p.account \in Nat
         /\ p.record.trades \in Nat /\ p.record.won \in Nat /\ p.record.gain \in Nat
         /\ p.record.loss \in Nat /\ p.record.won <= p.record.trades
         /\ (p.record.won > 0 => p.record.gain > 0)
         /\ {p.alarm, p.volatile, p.uncertain, p.limits} \subseteq BOOLEAN
  BY DEF Plausible

\* The buffer behind a zone is at least eight pips.
LEMMA Buffers ==
  ASSUME NEW p, Plausible(p)
  PROVE  Buffer(p) \in Int /\ Buffer(p) >= 80
  <1>1. SessionBuffer(p.session) \in Int /\ SessionBuffer(p.session) >= 80
    BY DEF SessionBuffer
  <1>2. p.atr \in Nat
    BY Fields
  <1>4. p.atr \div 5 \in Int /\ p.atr \div 5 >= 0
    BY <1>2
  <1>3. ASSUME NEW q \in Int, q >= 0 PROVE Min({q, 150}) \in Int /\ Min({q, 150}) >= 0
    <2>1. 150 \in Int
      OBVIOUS
    <2> QED BY <2>1, <1>3, MinOfTwo
  <1> QED BY <1>1, <1>2, <1>3, <1>4 DEF Buffer

\* The stop that is used lies where the trade loses.
LEMMA AdaptiveSide ==
  ASSUME NEW p, Plausible(p)
  PROVE  /\ AdaptiveStop(p) \in Int
         /\ Buys(p) => AdaptiveStop(p) < 0
         /\ ~Buys(p) => AdaptiveStop(p) > 0
  <1>1. CASE Behind(p) = {}
    BY <1>1, Buffers DEF AdaptiveStop
  <1>2. CASE Behind(p) # {} /\ Buys(p)
    <2>1. Behind(p) \in SUBSET Int /\ \A z \in Behind(p) : z < 0
      BY <1>2, Fields DEF Behind
    <2>2. \A z \in Behind(p) : z <= 0
      BY <2>1
    <2>3. Max(Behind(p)) \in Behind(p)
      BY <1>2, <2>1, <2>2, NearestBelow
    <2> QED BY <1>2, <2>1, <2>3, Buffers DEF AdaptiveStop
  <1>3. CASE Behind(p) # {} /\ ~Buys(p)
    <2>1. Behind(p) \in SUBSET Nat /\ \A z \in Behind(p) : z > 0
      BY <1>3, Fields DEF Behind
    <2>2. Min(Behind(p)) \in Behind(p)
      BY <1>3, <2>1, NearestAbove
    <2> QED BY <1>3, <2>1, <2>2, Buffers DEF AdaptiveStop
  <1> QED BY <1>1, <1>2, <1>3

\* The stop behind a level lies where the trade loses, if there is one.
LEMMA LevelStops ==
  ASSUME NEW p, Plausible(p)
  PROVE  LevelStop(p) \in Int /\ (Buys(p) => LevelStop(p) <= 0) /\ (~Buys(p) => LevelStop(p) >= 0)
  <1>1. CASE Buys(p) /\ Below(p) # {}
    <2>1. Below(p) \in SUBSET Nat
      <3>1. p.support \in Seq(Int)
        BY Fields
      <3>2. DOMAIN p.support = 1 .. Len(p.support) /\ Len(p.support) \in Nat
        BY <3>1
      <3> QED BY <3>2 DEF Below
    <2>2. p.support[Min(Below(p))] \in Int /\ p.support[Min(Below(p))] < 0
      <3>1. Min(Below(p)) \in DOMAIN p.support /\ p.support[Min(Below(p))] < 0
        BY <1>1, <2>1, NearestAbove DEF Below
      <3>2. p.support \in Seq(Int)
        BY Fields
      <3> QED BY <3>1, <3>2
    <2> QED BY <1>1, <2>2 DEF LevelStop
  <1>2. CASE ~Buys(p) /\ Above(p) # {}
    <2>1. Above(p) \in SUBSET Nat
      <3>1. p.resistance \in Seq(Int)
        BY Fields
      <3>2. DOMAIN p.resistance = 1 .. Len(p.resistance) /\ Len(p.resistance) \in Nat
        BY <3>1
      <3> QED BY <3>2 DEF Above
    <2>2. p.resistance[Min(Above(p))] \in Int /\ p.resistance[Min(Above(p))] > 0
      <3>1. Min(Above(p)) \in DOMAIN p.resistance /\ p.resistance[Min(Above(p))] > 0
        BY <1>2, <2>1, NearestAbove DEF Above
      <3>2. p.resistance \in Seq(Int)
        BY Fields
      <3> QED BY <3>1, <3>2
    <2> QED BY <1>2, <2>2 DEF LevelStop
  <1> QED BY <1>1, <1>2 DEF LevelStop

LEMMA ManagerStops ==
  ASSUME NEW p, Plausible(p)
  PROVE  ManagerStop(p) \in Int /\ FromEntry(ManagerStop(p)) \in Int
         /\ FromEntry(ManagerStop(p)) >= 100
  <1>1. LevelStop(p) \in Int
    BY LevelStops
  <1>2. AtrStop(p) \in Int
    <2>1. (3 * p.atr) \div 2 \in Int
      BY Fields
    <2> QED BY <2>1 DEF AtrStop
  <1>3. ChosenStop(p) \in Int
    <2>1. /\ Max({AtrStop(p), LevelStop(p)}) \in Int
          /\ Min({AtrStop(p), LevelStop(p)}) \in Int
      BY <1>1, <1>2, MaxOfTwo, MinOfTwo
    <2> QED BY <2>1, <1>1, <1>2 DEF ChosenStop
  <1> QED BY <1>3 DEF ManagerStop, FromEntry

LEMMA Counts ==
  ASSUME NEW p, Plausible(p)
  PROVE  p.strength \in Int /\ p.tolerance \in Nat /\ p.tolerance > 0
  <1>1. p.strength \in 0 .. 100
    BY Fields
  <1>2. p.tolerance \in 1 .. 3
    BY Fields
  <1>3. p.strength \in Int
    BY <1>1
  <1>4. p.tolerance \in Nat /\ p.tolerance > 0
    BY <1>2
  <1> QED BY <1>3, <1>4

LEMMA Parts ==
  ASSUME NEW n \in Int, NEW of \in Int
  PROVE  Part(n, of, 100) \in Int /\ Part(n, of, 10000) \in Int
  <1>1. n * of \in Int
    BY Products
  <1> QED BY <1>1, Quotients DEF Part

LEMMA Factors ==
  ASSUME NEW p, Plausible(p)
  PROVE  /\ Kelly(p.record) \in Int /\ VolFactor(p) \in Int /\ AtrFactor(p) \in Int
         /\ RegimeShare(p) \in Int /\ StreakFactor(p) \in Int
  <1>1. Kelly(p.record) \in Int
    <2> DEFINE r == p.record
               top == 2500 * (r.won * r.gain - (r.trades - r.won) * r.loss)
               bottom == r.trades * r.gain
    <2>1. r.trades \in Int /\ r.gain \in Int /\ r.won \in Int /\ r.loss \in Int
      BY Fields
    <2>2. r.won * r.gain \in Int /\ (r.trades - r.won) * r.loss \in Int
      BY <2>1, Products
    <2>3. top \in Int
      BY <2>2
    <2>4. CASE r.trades < 20 \/ r.won \in {0, r.trades} \/ r.loss = 0
      BY <2>4 DEF Kelly
    <2>5. CASE ~(r.trades < 20 \/ r.won \in {0, r.trades} \/ r.loss = 0)
      <3>1. r.trades > 0 /\ r.gain > 0
        BY <2>1, <2>5, Fields
      <3>2. bottom \in Int /\ bottom > 0
        BY <2>1, <3>1, Products
      <3>3. Kelly(r) = Within(0, 200, top \div bottom)
        BY <2>5 DEF Kelly
      <3> HIDE DEF top, bottom
      <3>4. top \div bottom \in Int
        BY <2>3, <3>2, Quotients
      <3> QED BY <3>3, <3>4, WithinBounds
    <2> QED BY <2>4, <2>5
  <1>2. VolFactor(p) \in Int
    <2>1. p.swings \in Int /\ p.swings > 0
      BY Fields
    <2>2. 10000 \div p.swings \in Int
      BY <2>1, Quotients
    <2> QED BY <2>2, WithinBounds DEF VolFactor
  <1>3. AtrFactor(p) \in Int
    <2>1. p.atr \in Nat /\ p.usual \in Nat
      BY Fields
    <2>2. CASE p.atr = 0 \/ p.usual = 0
      BY <2>2 DEF AtrFactor
    <2>3. CASE ~(p.atr = 0 \/ p.usual = 0)
      <3>1. 100 * p.usual \in Int /\ p.atr > 0 /\ p.atr \in Int
        BY <2>1, <2>3
      <3>2. (100 * p.usual) \div p.atr \in Int
        BY <3>1, Quotients
      <3> QED BY <2>3, <3>2, WithinBounds DEF AtrFactor
    <2> QED BY <2>2, <2>3
  <1>4. RegimeShare(p) \in Int
    <2> DEFINE base == CASE p.regime = "trending" -> 100 [] p.regime = "breakout" -> 70 [] OTHER -> 80
               part == 50 + p.strength \div 2
    <2>1. base \in Int
      OBVIOUS
    <2>2. part \in Int
      <3>1. p.strength \in Int
        BY Counts
      <3>2. p.strength \div 2 \in Int
        BY <3>1, Quotients
      <3> QED BY <3>2
    <2>3. RegimeShare(p) = IF p.regime = NoRegime THEN 10000 ELSE base * part
      BY DEF RegimeShare
    <2> HIDE DEF base, part
    <2>4. base * part \in Int
      BY <2>1, <2>2, Products
    <2> QED BY <2>3, <2>4
  <1>5. StreakFactor(p) \in Int
    BY DEF StreakFactor
  <1> QED BY <1>1, <1>2, <1>3, <1>4, <1>5

\* Whatever the record and the circumstances, the manager has a size.
LEMMA ManagerSizes ==
  ASSUME NEW p, Plausible(p)
  PROVE  ManagerSize(p) \in Int
  <1>1. \A risk \in Int : ScaledRisk(risk, p) \in Int
    <2> SUFFICES ASSUME NEW risk \in Int PROVE ScaledRisk(risk, p) \in Int
      OBVIOUS
    <2>1. Part(risk, VolFactor(p), 100) \in Int
      BY Factors, Parts
    <2>2. Part(Part(risk, VolFactor(p), 100), AtrFactor(p), 100) \in Int
      BY <2>1, Factors, Parts
    <2>3. Part(Part(Part(risk, VolFactor(p), 100), AtrFactor(p), 100), RegimeShare(p), 10000) \in Int
      BY <2>2, Factors, Parts
    <2> QED BY <2>3, Factors, Parts DEF ScaledRisk
  <1> DEFINE risk == IF p.record.trades >= 20 /\ Kelly(p.record) > 0
                       THEN Within(1000, 15000, ScaledRisk(Kelly(p.record), p))
                       ELSE Within(2500, 15000, ScaledRisk(10000, p))
  <1>2. risk \in Int
    <2>1. ScaledRisk(Kelly(p.record), p) \in Int /\ ScaledRisk(10000, p) \in Int
      BY <1>1, Factors
    <2>2. Within(1000, 15000, ScaledRisk(Kelly(p.record), p)) \in Int
      BY <2>1, WithinBounds
    <2>3. Within(2500, 15000, ScaledRisk(10000, p)) \in Int
      BY <2>1, WithinBounds
    <2> QED BY <2>2, <2>3
  <1>3. ManagerSize(p) = Within(1, 1000, (p.account * risk) \div FromEntry(ManagerStop(p)))
    BY DEF ManagerSize
  <1> HIDE DEF risk
  <1>4. p.account * risk \in Int
    BY <1>2, Fields, Products
  <1>5. (p.account * risk) \div FromEntry(ManagerStop(p)) \in Int
    BY <1>4, ManagerStops, Quotients
  <1> QED BY <1>3, <1>5, WithinBounds

LEMMA FiveFactors ==
  ASSUME NEW a \in Nat, NEW b \in Nat, NEW c \in Nat, NEW d \in Nat, NEW e \in Nat
  PROVE  /\ a * b * c * d * e \in Int
         /\ a > 0 /\ b > 0 /\ c > 0 /\ d > 0 /\ e > 0 => a * b * c * d * e > 0
  <1> DEFINE ab == a * b
             abc == ab * c
             abcd == abc * d
  <1>1. ab \in Int /\ (a > 0 /\ b > 0 => ab > 0)
    BY Products
  <1> HIDE DEF ab
  <1>2. abc \in Int /\ (ab > 0 /\ c > 0 => abc > 0)
    BY <1>1, Products
  <1> HIDE DEF abc
  <1>3. abcd \in Int /\ (abc > 0 /\ d > 0 => abcd > 0)
    BY <1>2, Products
  <1> HIDE DEF abcd
  <1>4. abcd * e \in Int /\ (abcd > 0 /\ e > 0 => abcd * e > 0)
    BY <1>3, Products
  <1>5. a * b * c * d * e = abcd * e
    BY DEF ab, abc, abcd
  <1> QED BY <1>1, <1>2, <1>3, <1>4, <1>5

\* What is allowed is none of the reasons to refuse.
LEMMA Refusals ==
  /\ Allowed \notin {"avoid_weekend", "excessive_drawdown", "risk_limits", "low_intent_confidence"}
  /\ Allowed \notin {"stop_inside_noise_band", "insufficient_risk_reward"}
  BY Zenon DEF Allowed

LEMMA WhatIsAllowed ==
  ASSUME NEW p, Plausible(p), Rejection(p) = Allowed
  PROVE  /\ p.session \notin {"weekend", "holiday"} /\ DownTenths(p) # 0 /\ IntentTenths(p) # 0
         /\ ManagerApproves(p) /\ ~InNoise(p) /\ ~PaysTooLittle(p)
  <1>1. ~Closed(p)
    <2>1. CASE Closed(p)
      <3>1. Rejection(p) = "avoid_weekend"
        BY <2>1, Zenon DEF Rejection
      <3> QED BY <3>1, Refusals, Zenon
    <2> QED BY <2>1
  <1>2. DownTenths(p) # 0
    <2>1. CASE DownTenths(p) = 0
      <3>1. Rejection(p) = "excessive_drawdown"
        BY <1>1, <2>1, Zenon DEF Rejection
      <3> QED BY <3>1, Refusals, Zenon
    <2> QED BY <2>1
  <1>3. ManagerApproves(p)
    <2>1. CASE ~ManagerApproves(p)
      <3>1. Rejection(p) = "risk_limits"
        BY <1>1, <1>2, <2>1, Zenon DEF Rejection
      <3> QED BY <3>1, Refusals, Zenon
    <2> QED BY <2>1
  <1>4. IntentTenths(p) # 0
    <2>1. CASE IntentTenths(p) = 0
      <3>1. Rejection(p) = "low_intent_confidence"
        BY <1>1, <1>2, <1>3, <2>1, Zenon DEF Rejection
      <3> QED BY <3>1, Refusals, Zenon
    <2> QED BY <2>1
  <1>5. ~InNoise(p)
    <2>1. CASE InNoise(p)
      <3>1. Rejection(p) = "stop_inside_noise_band"
        BY <1>1, <1>2, <1>3, <1>4, <2>1, Zenon DEF Rejection
      <3> QED BY <3>1, Refusals, Zenon
    <2> QED BY <2>1
  <1>6. ~PaysTooLittle(p)
    <2>1. CASE PaysTooLittle(p)
      <3>1. Rejection(p) = "insufficient_risk_reward"
        BY <1>1, <1>2, <1>3, <1>4, <1>5, <2>1, Zenon DEF Rejection
      <3> QED BY <3>1, Refusals, Zenon
    <2> QED BY <2>1
  <1>7. p.session \notin {"weekend", "holiday"}
    BY <1>1 DEF Closed
  <1> QED BY <1>2, <1>3, <1>4, <1>5, <1>6, <1>7

\* What is not refused gets a size of at least a hundredth of a lot.
LEMMA DynamicSizes ==
  ASSUME NEW p, Plausible(p)
  PROVE  /\ DynamicSize(p) \in Int
         /\ Rejection(p) = Allowed => DynamicSize(p) >= 1
  <1>1. /\ SessionTenths(p) \in Nat /\ IntentTenths(p) \in Nat /\ DownTenths(p) \in Nat
        /\ PairTwentieths(p) \in Nat /\ PairTwentieths(p) > 0
        /\ p.tolerance \in Nat /\ p.tolerance > 0
    <2>1. SessionTenths(p) \in Nat
      BY DEF SessionTenths
    <2>2. IntentTenths(p) \in Nat
      BY DEF IntentTenths
    <2>3. DownTenths(p) \in Nat
      BY DEF DownTenths
    <2>4. PairTwentieths(p) \in Nat /\ PairTwentieths(p) > 0
      BY Fields DEF PairTwentieths
    <2>5. p.tolerance \in Nat /\ p.tolerance > 0
      BY Counts
    <2> QED BY <2>1, <2>2, <2>3, <2>4, <2>5
  <1>2. Rejection(p) = Allowed => SessionTenths(p) > 0 /\ IntentTenths(p) > 0 /\ DownTenths(p) > 0
    <2> SUFFICES ASSUME Rejection(p) = Allowed PROVE SessionTenths(p) > 0 /\ IntentTenths(p) > 0 /\ DownTenths(p) > 0
      OBVIOUS
    <2>1. p.session \notin {"weekend", "holiday"}
      BY WhatIsAllowed
    <2>2. DownTenths(p) # 0
      BY WhatIsAllowed
    <2>3. IntentTenths(p) # 0
      BY WhatIsAllowed
    <2>4. SessionTenths(p) \in {6, 8, 10, 12}
      <3>1. CASE p.session = "asian"
        BY <3>1 DEF SessionTenths, Closed
      <3>2. CASE p.session \in {"london", "newyork"}
        BY <3>2 DEF SessionTenths, Closed
      <3>3. CASE p.session = "overlap"
        BY <3>3 DEF SessionTenths, Closed
      <3>4. CASE p.session \notin {"asian", "london", "newyork", "overlap"}
        BY <2>1, <3>4 DEF SessionTenths, Closed
      <3> QED BY <3>1, <3>2, <3>3, <3>4
    <2>5. SessionTenths(p) > 0
      BY <2>4
    <2>6. DownTenths(p) > 0
      <3>1. DownTenths(p) \in Nat
        BY <1>1
      <3> QED BY <2>2, <3>1
    <2>7. IntentTenths(p) > 0
      <3>1. IntentTenths(p) \in Nat
        BY <1>1
      <3> QED BY <2>3, <3>1
    <2> QED BY <2>5, <2>6, <2>7
  <1> DEFINE risk == p.tolerance * SessionTenths(p) * IntentTenths(p) * DownTenths(p) * PairTwentieths(p)
  <1>3. risk \in Int /\ (Rejection(p) = Allowed => risk > 0)
    BY <1>1, <1>2, FiveFactors
  <1>4. DynamicRisk(p) = IF risk = 0 THEN 0 ELSE Within(10000, 80000, risk)
    BY DEF DynamicRisk
  <1> HIDE DEF risk
  <1>5. DynamicRisk(p) \in Int /\ (Rejection(p) = Allowed => DynamicRisk(p) >= 10000)
    BY <1>3, <1>4, WithinBounds
  <1>6. BaseSize(p) \in Int
    BY ManagerSizes DEF BaseSize
  <1> DEFINE scaled == (BaseSize(p) * DynamicRisk(p)) \div 40000
  <1>7. scaled \in Int
    <2>1. \A x, y \in Int : x * y \in Int
      BY Products
    <2>2. BaseSize(p) * DynamicRisk(p) \in Int
      BY <2>1, <1>5, <1>6
    <2> QED BY <2>2, Quotients
  <1>8. DynamicSize(p) = IF DynamicRisk(p) = 0 THEN 0 ELSE Max({1, scaled})
    BY DEF DynamicSize
  <1> HIDE DEF scaled
  <1>9. Max({1, scaled}) \in Int /\ Max({1, scaled}) >= 1
    <2>1. 1 \in Int
      OBVIOUS
    <2> QED BY <1>7, <2>1, MaxOfTwo
  <1> QED BY <1>5, <1>8, <1>9

-----------------------------------------------------------------------------
\* What an assessment looks like, however often the guardrail has seen it: the
\* target, the verdict and the score stay, the stop never comes nearer than the
\* adaptive one, and a size that starts at ten thousandths stays above zero.
Assessments(p) ==
  [stop : Int, target : {TakeProfit(p, AdaptiveStop(p))}, size : Int, reason : {Rejection(p)},
   score : {RiskScore(p)}, guarded : 0 .. 2]
Safeguarded(p, a) ==
  /\ a \in Assessments(p)
  /\ IF Buys(p) THEN a.stop <= AdaptiveStop(p) ELSE a.stop >= AdaptiveStop(p)
  /\ a.guarded = 0 => a.stop = AdaptiveStop(p)
  /\ a.reason = Allowed => a.size >= 10 - 3 * a.guarded
SizingInv == Plausible(proposal) /\ (assessed = Unassessed \/ Safeguarded(proposal, assessed))

LEMMA FirstAssessment ==
  ASSUME NEW p, Plausible(p)
  PROVE  Safeguarded(p, AssessmentOf(p))
  <1> DEFINE a == AssessmentOf(p)
  <1>1. a.stop = AdaptiveStop(p) /\ a.guarded = 0 /\ a.reason = Rejection(p) /\ a.size = 10 * DynamicSize(p)
    BY DEF AssessmentOf
  <1>2. AdaptiveStop(p) \in Int /\ 10 * DynamicSize(p) \in Int
    BY AdaptiveSide, DynamicSizes
  <1>3. a \in Assessments(p)
    BY <1>2 DEF AssessmentOf, Assessments
  <1>4. a.reason = Allowed => a.size >= 10 - 3 * a.guarded
    <2>1. Rejection(p) = Allowed => 10 * DynamicSize(p) >= 10
      BY DynamicSizes
    <2> QED BY <1>1, <2>1
  <1> HIDE DEF a
  <1>5. IF Buys(p) THEN a.stop <= AdaptiveStop(p) ELSE a.stop >= AdaptiveStop(p)
    BY <1>1, <1>2
  <1> QED BY <1>1, <1>3, <1>4, <1>5 DEF Safeguarded, a

LEMMA EnhancedAssessment ==
  ASSUME NEW p, Plausible(p), NEW a, Safeguarded(p, a), a.guarded < 2
  PROVE  Safeguarded(p, Enhanced(p, a))
  <1> DEFINE b == Enhanced(p, a)
  <1>1. a \in Assessments(p)
    BY DEF Safeguarded
  <1>2. /\ a.stop \in Int /\ a.size \in Int /\ a.guarded \in 0 .. 2 /\ a.reason = Rejection(p)
    BY <1>1 DEF Assessments
  <1>3. /\ b.stop = GuardedStop(p, a.stop) /\ b.target = a.target /\ b.reason = a.reason
        /\ b.score = a.score /\ b.guarded = a.guarded + 1
        /\ b.size = IF p.uncertain THEN (a.size * 7) \div 10 ELSE a.size
    BY <1>1 DEF Assessments, Enhanced
  <1>4. /\ GuardedStop(p, a.stop) \in Int
        /\ IF Buys(p) THEN GuardedStop(p, a.stop) <= AdaptiveStop(p)
           ELSE GuardedStop(p, a.stop) >= AdaptiveStop(p)
    <2>1. AdaptiveStop(p) \in Int /\ (Buys(p) => AdaptiveStop(p) < 0) /\ (~Buys(p) => AdaptiveStop(p) > 0)
      BY AdaptiveSide
    <2>2. IF Buys(p) THEN a.stop <= AdaptiveStop(p) ELSE a.stop >= AdaptiveStop(p)
      BY DEF Safeguarded
    <2>3. CASE Buys(p)
      BY <1>2, <2>1, <2>2, <2>3 DEF GuardedStop, FromEntry
    <2>4. CASE ~Buys(p)
      BY <1>2, <2>1, <2>2, <2>4 DEF GuardedStop, FromEntry
    <2> QED BY <2>3, <2>4
  <1>5. b.size \in Int
    BY <1>2, <1>3
  <1>6. b \in Assessments(p)
    <2>1. GuardedStop(p, a.stop) \in Int /\ a.guarded + 1 \in 0 .. 2
      BY <1>2, <1>4
    <2>2. (IF p.uncertain THEN (a.size * 7) \div 10 ELSE a.size) \in Int
      BY <1>2
    <2> QED BY <1>1, <2>1, <2>2 DEF Assessments, Enhanced
  <1>7. a.reason = Allowed => a.size >= 10 - 3 * a.guarded
    BY DEF Safeguarded
  <1> HIDE DEF b
  <1>8. b.reason = Allowed => b.size >= 10 - 3 * b.guarded
    <2>1. a.guarded \in {0, 1}
      BY <1>2
    <2>2. SUFFICES ASSUME b.reason = Allowed PROVE b.size >= 10 - 3 * b.guarded
      OBVIOUS
    <2>3. a.size >= 10 - 3 * a.guarded
      BY <1>3, <1>7, <2>2
    <2>4. CASE a.guarded = 0
      BY <1>2, <1>3, <2>3, <2>4
    <2>5. CASE a.guarded = 1
      BY <1>2, <1>3, <2>3, <2>5
    <2> QED BY <2>1, <2>4, <2>5
  <1>9. b.guarded # 0
    BY <1>2, <1>3
  <1> QED BY <1>3, <1>4, <1>6, <1>8, <1>9 DEF Safeguarded, b

\* A safeguarded assessment is what the property asks for.
LEMMA SafeguardedStops ==
  ASSUME SizingInv
  PROVE  StopsGuard
  <1> DEFINE p == proposal
             a == assessed
             side == IF Buys(p) THEN 1 ELSE -1
  <1> SUFFICES ASSUME assessed # Unassessed
               PROVE  /\ side * a.stop < 0 /\ side * a.target > 0
                      /\ FromEntry(a.stop) >= FromEntry(AdaptiveStop(p))
                      /\ a.reason = Allowed =>
                           /\ a.size > 0 /\ FromEntry(a.stop) * 5 >= p.atr * 3
                           /\ a.guarded = 0 =>
                                FromEntry(a.target) * 10 >= (FromEntry(a.stop) + Slippage(p)) * 13
    BY DEF StopsGuard
  <1>1. Plausible(p) /\ Safeguarded(p, a)
    BY DEF SizingInv
  <1>2. /\ a.stop \in Int /\ a.size \in Int /\ a.guarded \in 0 .. 2 /\ a.reason = Rejection(p)
        /\ a.target = TakeProfit(p, AdaptiveStop(p))
    BY <1>1 DEF Safeguarded, Assessments
  <1>3. /\ IF Buys(p) THEN a.stop <= AdaptiveStop(p) ELSE a.stop >= AdaptiveStop(p)
        /\ a.guarded = 0 => a.stop = AdaptiveStop(p)
        /\ a.reason = Allowed => a.size >= 10 - 3 * a.guarded
    BY <1>1 DEF Safeguarded
  <1> HIDE DEF p, a
  <1>4. AdaptiveStop(p) \in Int /\ (Buys(p) => AdaptiveStop(p) < 0) /\ (~Buys(p) => AdaptiveStop(p) > 0)
    BY <1>1, AdaptiveSide
  <1>5. side * a.stop < 0
    BY <1>2, <1>3, <1>4
  <1>6. side * a.target > 0
    BY <1>2, <1>4 DEF TakeProfit, FromEntry
  <1>7. FromEntry(a.stop) >= FromEntry(AdaptiveStop(p))
    BY <1>2, <1>3, <1>4 DEF FromEntry
  <1>8. ASSUME a.reason = Allowed PROVE a.size > 0
    BY <1>2, <1>3, <1>8
  <1>9. ASSUME a.reason = Allowed PROVE FromEntry(a.stop) * 5 >= p.atr * 3
    <2>1. ~InNoise(p)
      BY <1>1, <1>2, <1>9, WhatIsAllowed
    <2>2. FromEntry(AdaptiveStop(p)) \in Int /\ FromEntry(a.stop) \in Int
      BY <1>2, <1>4 DEF FromEntry
    <2>3. p.atr \in Int
      BY <1>1, Fields
    <2>4. FromEntry(AdaptiveStop(p)) * 5 >= p.atr * 3
      BY <2>1, <2>2, <2>3 DEF InNoise
    <2> QED BY <1>7, <2>2, <2>3, <2>4
  <1>10. ASSUME a.reason = Allowed, a.guarded = 0
         PROVE  FromEntry(a.target) * 10 >= (FromEntry(a.stop) + Slippage(p)) * 13
    <2>1. ~PaysTooLittle(p)
      BY <1>1, <1>2, <1>10, WhatIsAllowed
    <2>2. a.stop = AdaptiveStop(p)
      BY <1>3, <1>10
    <2>3. Slippage(p) \in Int
      BY DEF Slippage
    <2>4. CASE Buys(p)
      BY <1>2, <1>4, <2>1, <2>2, <2>3, <2>4 DEF PaysTooLittle, TakeProfit, FromEntry
    <2>5. CASE ~Buys(p)
      BY <1>2, <1>4, <2>1, <2>2, <2>3, <2>5 DEF PaysTooLittle, TakeProfit, FromEntry
    <2> QED BY <2>4, <2>5
  <1> HIDE DEF side
  <1> QED BY <1>5, <1>6, <1>7, <1>8, <1>9, <1>10

LEMMA SizingBegins == SizingInit => SizingInv
  BY Proposed DEF SizingInit, SizingStart, SizingInv

LEMMA SizingStep == SizingInv /\ [SizingNext]_sizingVars => SizingInv'
  <1> SUFFICES ASSUME SizingInv, [SizingNext]_sizingVars PROVE SizingInv'
    OBVIOUS
  <1>1. CASE AssessTrade
    BY <1>1, FirstAssessment DEF AssessTrade, SizingInv
  <1>2. CASE EnhanceSafety
    <2>1. Safeguarded(proposal, assessed) /\ Plausible(proposal) /\ assessed.guarded < 2
      BY <1>2 DEF EnhanceSafety, SizingInv
    <2>2. Safeguarded(proposal, Enhanced(proposal, assessed))
      BY <2>1, EnhancedAssessment
    <2> QED BY <1>2, <2>1, <2>2 DEF EnhanceSafety, SizingInv
  <1>3. CASE UNCHANGED sizingVars
    BY <1>3 DEF sizingVars, SizingInv
  <1> QED BY <1>1, <1>2, <1>3 DEF SizingNext

\* Stop and target lie on their sides of the entry, whatever the zones, the ATR,
\* the session and the account, and what is not refused has a size, a stop beyond
\* the noise and a reward worth the risk (risk_management/skill.py, risk_manager.py
\* and the guardrail behind them).
THEOREM StopsAreGuarded == SizingSpec => []StopsGuard
  <1>1. SizingInv => StopsGuard
    BY SafeguardedStops
  <1> QED BY <1>1, SizingBegins, SizingStep, PTL DEF SizingSpec
-----------------------------------------------------------------------------
(* Caution *)

LEMMA ProductGrows ==
  ASSUME NEW a \in Int, NEW b \in Int, NEW c \in Nat, a <= b
  PROVE  a * c <= b * c
  OBVIOUS

LEMMA QuotientGrows ==
  ASSUME NEW a \in Int, NEW b \in Int, NEW d \in Nat \ {0}, a <= b
  PROVE  a \div d <= b \div d
  OBVIOUS

LEMMA QuotientShrinks ==
  ASSUME NEW a \in Nat, NEW d \in Nat \ {0}, NEW e \in Nat \ {0}, d <= e
  PROVE  a \div e <= a \div d
  OBVIOUS

LEMMA WithinIs ==
  ASSUME NEW low \in Int, NEW high \in Int, NEW n \in Int, low <= high
  PROVE  Within(low, high, n) = IF n <= low THEN low ELSE IF n >= high THEN high ELSE n
  <1> DEFINE m == Min({high, n})
  <1>1. m \in Int /\ m <= high /\ m <= n /\ m \in {high, n}
    BY MinOfTwo
  <1>2. Within(low, high, n) = Max({low, m})
    BY DEF Within
  <1> HIDE DEF m
  <1>3. Max({low, m}) \in Int /\ Max({low, m}) >= low /\ Max({low, m}) >= m /\ Max({low, m}) \in {low, m}
    BY <1>1, MaxOfTwo
  <1> QED BY <1>1, <1>2, <1>3

LEMMA WithinGrows ==
  ASSUME NEW low \in Int, NEW high \in Int, NEW m \in Int, NEW n \in Int, low <= high, m <= n
  PROVE  Within(low, high, m) <= Within(low, high, n)
  BY WithinIs

\* CautionFields q that call for no less caution than p, for the same trade.
Cautious(q, p) ==
  /\ q.direction = p.direction /\ q.usual = p.usual /\ q.support = p.support
  /\ q.resistance = p.resistance /\ q.zones = p.zones /\ q.session = p.session
  /\ q.regime = p.regime /\ q.record = p.record /\ q.account = p.account
  /\ q.volatile = p.volatile /\ q.intent = p.intent
  /\ q.atr = p.atr \/ (p.atr > 0 /\ q.atr >= p.atr)
  /\ q.losses >= p.losses /\ q.down >= p.down /\ q.swings >= p.swings
  /\ q.strength <= p.strength /\ q.lift <= p.lift /\ q.gbp <= p.gbp /\ q.chf <= p.chf
  /\ q.tolerance <= p.tolerance
  /\ (q.limits => p.limits) /\ (p.alarm => q.alarm) /\ (p.uncertain => q.uncertain)

LEMMA PartGrows ==
  ASSUME NEW n \in Int, NEW m \in Nat, NEW a \in Nat, NEW b \in Int, n <= m, a <= b,
         NEW whole \in Nat \ {0}
  PROVE  Part(n, a, whole) <= Part(m, b, whole) /\ Part(n, a, whole) \in Int /\ Part(m, b, whole) \in Int
  <1>1. n * a \in Int /\ m * a \in Int /\ m * b \in Int
    OBVIOUS
  <1>2. n * a <= m * a
    BY ProductGrows
  <1>3. m * a <= m * b
    <2>1. a * m <= b * m
      BY ProductGrows
    <2> QED BY <2>1
  <1>4. n * a <= m * b
    BY <1>1, <1>2, <1>3
  <1> QED BY <1>1, <1>4, QuotientGrows, Quotients DEF Part

LEMMA PartIsNatural ==
  ASSUME NEW n \in Nat, NEW of \in Nat, NEW whole \in Nat \ {0}
  PROVE  Part(n, of, whole) \in Nat
  <1>1. n * of \in Nat
    OBVIOUS
  <1> QED BY <1>1 DEF Part

\* Each factor of the risk shrinks, or stays, in more cautious circumstances.
LEMMA LessVolatile ==
  ASSUME NEW p, Plausible(p), NEW q, Plausible(q), Cautious(q, p)
  PROVE  VolFactor(q) <= VolFactor(p) /\ VolFactor(q) \in Nat /\ VolFactor(p) \in Nat
  <1>1. p.swings \in Nat \ {0} /\ q.swings \in Nat \ {0} /\ p.swings <= q.swings
    BY Fields DEF Cautious
  <1>2. 10000 \div q.swings <= 10000 \div p.swings
    BY <1>1, QuotientShrinks
  <1>3. 10000 \div q.swings \in Int /\ 10000 \div p.swings \in Int
    BY <1>1, Quotients
  <1> HIDE DEF Cautious
  <1>4. Within(30, 200, 10000 \div q.swings) <= Within(30, 200, 10000 \div p.swings)
    BY <1>2, <1>3, WithinGrows
  <1>5. VolFactor(q) >= 30 /\ VolFactor(p) >= 30
    <2>1. ASSUME NEW n \in Int PROVE Within(30, 200, n) >= 30
      BY WithinBounds
    <2> QED BY <1>3, <2>1 DEF VolFactor
  <1> QED BY <1>4, <1>5, Factors DEF VolFactor

LEMMA LessRange ==
  ASSUME NEW p, Plausible(p), NEW q, Plausible(q), Cautious(q, p)
  PROVE  AtrFactor(q) <= AtrFactor(p) /\ AtrFactor(q) \in Nat /\ AtrFactor(p) \in Nat
  <1>1. /\ p.atr \in Nat /\ q.atr \in Nat /\ p.usual \in Nat /\ q.usual = p.usual
        /\ p.atr = q.atr \/ (p.atr > 0 /\ q.atr >= p.atr)
    BY Fields DEF Cautious
  <1>2. AtrFactor(q) >= 0 /\ AtrFactor(p) >= 0
    <2> SUFFICES ASSUME NEW x, Plausible(x) PROVE AtrFactor(x) >= 0
      OBVIOUS
    <2>1. CASE x.atr = 0 \/ x.usual = 0
      BY <2>1 DEF AtrFactor
    <2>2. CASE ~(x.atr = 0 \/ x.usual = 0)
      <3>1. 100 * x.usual \in Int /\ x.atr \in Int /\ x.atr > 0
        BY <2>2, Fields
      <3>2. (100 * x.usual) \div x.atr \in Int
        BY <3>1, Quotients
      <3>3. ASSUME NEW n \in Int PROVE Within(50, 150, n) \in Int /\ Within(50, 150, n) >= 50
        BY WithinBounds
      <3>4. AtrFactor(x) = Within(50, 150, (100 * x.usual) \div x.atr)
        BY <2>2 DEF AtrFactor
      <3> QED BY <3>2, <3>3, <3>4
    <2> QED BY <2>1, <2>2
  <1>3. AtrFactor(q) <= AtrFactor(p)
    <2>1. CASE p.atr = q.atr
      <3>1. AtrFactor(q) = AtrFactor(p)
        BY <1>1, <2>1 DEF AtrFactor
      <3> QED BY <3>1, Factors
    <2>2. CASE p.usual = 0
      BY <1>1, <2>2 DEF AtrFactor
    <2>3. CASE p.usual # 0 /\ p.atr > 0 /\ q.atr >= p.atr
      <3>1. 100 * p.usual \in Nat /\ p.atr \in Nat \ {0} /\ q.atr \in Nat \ {0}
        BY <1>1, <2>3
      <3>2. (100 * p.usual) \div q.atr <= (100 * p.usual) \div p.atr
        BY <2>3, <3>1, QuotientShrinks
      <3>3. (100 * p.usual) \div q.atr \in Int /\ (100 * p.usual) \div p.atr \in Int
        BY <3>1, Quotients
      <3>4. Within(50, 150, (100 * p.usual) \div q.atr) <= Within(50, 150, (100 * p.usual) \div p.atr)
        BY <3>2, <3>3, WithinGrows
      <3> QED BY <1>1, <2>3, <3>1, <3>4 DEF AtrFactor
    <2> QED BY <1>1, <2>1, <2>2, <2>3
  <1> QED BY <1>2, <1>3, Factors

LEMMA LessTrend ==
  ASSUME NEW p, Plausible(p), NEW q, Plausible(q), Cautious(q, p)
  PROVE  RegimeShare(q) <= RegimeShare(p) /\ RegimeShare(q) \in Nat /\ RegimeShare(p) \in Nat
  <1> DEFINE base == CASE p.regime = "trending" -> 100 [] p.regime = "breakout" -> 70 [] OTHER -> 80
             few == 50 + q.strength \div 2
             many == 50 + p.strength \div 2
  <1>1. base \in Nat
    OBVIOUS
  <1>2. few \in Nat /\ many \in Nat /\ few <= many
    <2>1. q.strength \in Int /\ p.strength \in Int /\ q.strength >= 0 /\ q.strength <= p.strength
      <3>1. q.strength \in 0 .. 100 /\ p.strength \in 0 .. 100
        BY Fields
      <3>2. q.strength <= p.strength
        BY DEF Cautious
      <3> QED BY <3>1, <3>2
    <2> QED BY <2>1
  <1>3. q.regime = p.regime
    BY DEF Cautious
  <1>4. RegimeShare(q) = IF p.regime = NoRegime THEN 10000 ELSE base * few
    BY <1>3 DEF RegimeShare
  <1>5. RegimeShare(p) = IF p.regime = NoRegime THEN 10000 ELSE base * many
    BY DEF RegimeShare
  <1> HIDE DEF base, few, many
  <1>6. base * few \in Nat /\ base * many \in Nat
    BY <1>1, <1>2
  <1>7. few * base <= many * base
    BY <1>1, <1>2, ProductGrows
  <1>8. base * few <= base * many
    BY <1>1, <1>2, <1>7
  <1> QED BY <1>4, <1>5, <1>6, <1>8

LEMMA LessLuck ==
  ASSUME NEW p, Plausible(p), NEW q, Plausible(q), Cautious(q, p)
  PROVE  StreakFactor(q) <= StreakFactor(p) /\ StreakFactor(q) \in Nat /\ StreakFactor(p) \in Nat
  <1>1. p.losses \in Nat /\ q.losses \in Nat /\ q.losses >= p.losses
    BY Fields DEF Cautious
  <1> QED BY <1>1 DEF StreakFactor

\* So does what is left of a risk, though every factor rounds down.
LEMMA ScaledLess ==
  ASSUME NEW p, Plausible(p), NEW q, Plausible(q), Cautious(q, p), NEW risk \in Nat
  PROVE  ScaledRisk(risk, q) <= ScaledRisk(risk, p) /\ ScaledRisk(risk, q) \in Nat
         /\ ScaledRisk(risk, p) \in Nat
  <1> DEFINE a(x) == Part(risk, VolFactor(x), 100)
             b(x) == Part(a(x), AtrFactor(x), 100)
             c(x) == Part(b(x), RegimeShare(x), 10000)
  <1>1. a(q) <= a(p) /\ a(q) \in Nat /\ a(p) \in Nat
    BY LessVolatile, PartGrows, PartIsNatural
  <1> HIDE DEF a
  <1>2. b(q) <= b(p) /\ b(q) \in Nat /\ b(p) \in Nat
    BY <1>1, LessRange, PartGrows, PartIsNatural
  <1> HIDE DEF b
  <1>3. c(q) <= c(p) /\ c(q) \in Nat /\ c(p) \in Nat
    BY <1>2, LessTrend, PartGrows, PartIsNatural
  <1> HIDE DEF c
  <1>4. /\ Part(c(q), StreakFactor(q), 100) <= Part(c(p), StreakFactor(p), 100)
        /\ Part(c(q), StreakFactor(q), 100) \in Nat /\ Part(c(p), StreakFactor(p), 100) \in Nat
    BY <1>3, LessLuck, PartGrows, PartIsNatural
  <1> QED BY <1>4 DEF ScaledRisk, a, b, c

\* A wider ATR never brings the manager's stop nearer.
LEMMA WiderStop ==
  ASSUME NEW p, Plausible(p), NEW q, Plausible(q), Cautious(q, p)
  PROVE  FromEntry(ManagerStop(p)) <= FromEntry(ManagerStop(q))
  <1>1. LevelStop(q) = LevelStop(p) /\ (Buys(q) <=> Buys(p))
    BY DEF Cautious, LevelStop, Buys, Below, Above
  <1>2. LevelStop(p) \in Int /\ (Buys(p) => LevelStop(p) <= 0) /\ (~Buys(p) => LevelStop(p) >= 0)
    BY LevelStops
  <1>3. /\ AtrStop(p) \in Int /\ AtrStop(q) \in Int
        /\ Buys(p) => AtrStop(q) <= AtrStop(p) /\ AtrStop(p) <= 0
        /\ ~Buys(p) => AtrStop(q) >= AtrStop(p) /\ AtrStop(p) >= 0
        /\ AtrStop(p) = 0 <=> AtrStop(q) = 0
    <2>1. p.atr \in Nat /\ q.atr \in Nat /\ (p.atr = q.atr \/ (p.atr > 0 /\ q.atr >= p.atr))
      BY Fields DEF Cautious
    <2>2. /\ (3 * p.atr) \div 2 <= (3 * q.atr) \div 2 /\ (3 * p.atr) \div 2 >= 0
          /\ (3 * p.atr) \div 2 = 0 <=> (3 * q.atr) \div 2 = 0
          /\ (3 * p.atr) \div 2 \in Int /\ (3 * q.atr) \div 2 \in Int
      BY <2>1
    <2> QED BY <1>1, <2>2 DEF AtrStop
  <1>4. \A a, b \in Int : /\ Max({a, b}) = IF a >= b THEN a ELSE b
                          /\ Min({a, b}) = IF a <= b THEN a ELSE b
    BY MaxOfTwo, MinOfTwo
  <1>5. /\ ChosenStop(p) \in Int /\ ChosenStop(q) \in Int
        /\ Buys(p) => ChosenStop(q) <= ChosenStop(p) /\ ChosenStop(p) <= 0
        /\ ~Buys(p) => ChosenStop(q) >= ChosenStop(p) /\ ChosenStop(p) >= 0
    <2>1. CASE AtrStop(p) = 0 /\ LevelStop(p) = 0
      BY <1>1, <1>3, <2>1 DEF ChosenStop
    <2>2. CASE AtrStop(p) = 0 /\ LevelStop(p) # 0
      BY <1>1, <1>2, <1>3, <2>2 DEF ChosenStop
    <2>3. CASE AtrStop(p) # 0 /\ LevelStop(p) = 0
      BY <1>1, <1>2, <1>3, <2>3 DEF ChosenStop
    <2>4. CASE AtrStop(p) # 0 /\ LevelStop(p) # 0
      <3>1. /\ ChosenStop(p) = IF Buys(p) THEN Max({AtrStop(p), LevelStop(p)}) ELSE Min({AtrStop(p), LevelStop(p)})
            /\ ChosenStop(q) = IF Buys(p) THEN Max({AtrStop(q), LevelStop(p)}) ELSE Min({AtrStop(q), LevelStop(p)})
        BY <1>1, <1>3, <2>4 DEF ChosenStop
      <3> QED BY <1>2, <1>3, <1>4, <3>1
    <2> QED BY <2>1, <2>2, <2>3, <2>4
  <1> QED BY <1>1, <1>5 DEF ManagerStop, FromEntry

\* Less is risked on a stop that is no nearer: the manager's size is no larger.
LEMMA ManagerSizeLess ==
  ASSUME NEW p, Plausible(p), NEW q, Plausible(q), Cautious(q, p)
  PROVE  ManagerSize(q) <= ManagerSize(p) /\ ManagerSize(q) \in Nat /\ ManagerSize(p) \in Nat
  <1> DEFINE risk(x) == IF x.record.trades >= 20 /\ Kelly(x.record) > 0
                          THEN Within(1000, 15000, ScaledRisk(Kelly(x.record), x))
                          ELSE Within(2500, 15000, ScaledRisk(10000, x))
             stop(x) == FromEntry(ManagerStop(x))
             size(x) == (x.account * risk(x)) \div stop(x)
  <1>1. q.record = p.record /\ q.account = p.account
    BY DEF Cautious
  <1>2. p.account \in Nat /\ Kelly(p.record) \in Int
    BY Fields, Factors
  <1>3. risk(q) <= risk(p) /\ risk(q) \in Nat /\ risk(p) \in Nat
    <2>1. CASE p.record.trades >= 20 /\ Kelly(p.record) > 0
      <3>1. Kelly(p.record) \in Nat
        BY <1>2, <2>1
      <3>2. /\ ScaledRisk(Kelly(p.record), q) <= ScaledRisk(Kelly(p.record), p)
            /\ ScaledRisk(Kelly(p.record), q) \in Int /\ ScaledRisk(Kelly(p.record), p) \in Int
        BY <3>1, ScaledLess
      <3>3. \A m, n \in Int : /\ m <= n => Within(1000, 15000, m) <= Within(1000, 15000, n)
                             /\ Within(1000, 15000, m) \in Nat
        BY WithinIs
      <3> HIDE DEF Cautious
      <3> QED BY <1>1, <2>1, <3>2, <3>3
    <2>2. CASE ~(p.record.trades >= 20 /\ Kelly(p.record) > 0)
      <3>2. /\ ScaledRisk(10000, q) <= ScaledRisk(10000, p)
            /\ ScaledRisk(10000, q) \in Int /\ ScaledRisk(10000, p) \in Int
        BY ScaledLess
      <3>3. \A m, n \in Int : /\ m <= n => Within(2500, 15000, m) <= Within(2500, 15000, n)
                             /\ Within(2500, 15000, m) \in Nat
        BY WithinIs
      <3> QED BY <1>1, <2>2, <3>2, <3>3
    <2> QED BY <2>1, <2>2
  <1>4. stop(p) \in Nat \ {0} /\ stop(q) \in Nat \ {0} /\ stop(p) <= stop(q)
    BY ManagerStops, WiderStop
  <1>5. ManagerSize(q) = Within(1, 1000, size(q)) /\ ManagerSize(p) = Within(1, 1000, size(p))
    BY DEF ManagerSize
  <1> HIDE DEF risk, stop
  <1>6. size(q) <= size(p) /\ size(q) \in Int /\ size(p) \in Int
    <2>1. /\ p.account * risk(q) \in Nat /\ p.account * risk(p) \in Nat
          /\ risk(q) * p.account <= risk(p) * p.account
      BY <1>2, <1>3, ProductGrows
    <2>2. p.account * risk(q) <= p.account * risk(p)
      BY <1>2, <1>3, <2>1
    <2>3. (p.account * risk(q)) \div stop(q) <= (p.account * risk(p)) \div stop(q)
      BY <1>4, <2>1, <2>2, QuotientGrows
    <2>4. (p.account * risk(p)) \div stop(q) <= (p.account * risk(p)) \div stop(p)
      BY <1>4, <2>1, QuotientShrinks
    <2>5. /\ (p.account * risk(q)) \div stop(q) \in Int /\ (p.account * risk(p)) \div stop(q) \in Int
          /\ (p.account * risk(p)) \div stop(p) \in Int
      BY <1>4, <2>1, Quotients
    <2> QED BY <1>1, <2>3, <2>4, <2>5
  <1> HIDE DEF size
  <1>7. \A m, n \in Int : /\ m <= n => Within(1, 1000, m) <= Within(1, 1000, n)
                         /\ Within(1, 1000, m) \in Nat
    BY WithinIs
  <1> QED BY <1>5, <1>6, <1>7

\* The shares DynamicRisk multiplies.
LEMMA SharesLess ==
  ASSUME NEW p, Plausible(p), NEW q, Plausible(q), Cautious(q, p)
  PROVE  /\ q.tolerance <= p.tolerance /\ q.tolerance \in Nat /\ p.tolerance \in Nat
         /\ SessionTenths(q) = SessionTenths(p) /\ SessionTenths(p) \in Nat
         /\ IntentTenths(q) <= IntentTenths(p) /\ IntentTenths(q) \in Nat /\ IntentTenths(p) \in Nat
         /\ DownTenths(q) <= DownTenths(p) /\ DownTenths(q) \in Nat /\ DownTenths(p) \in Nat
         /\ PairTwentieths(q) <= PairTwentieths(p)
         /\ PairTwentieths(q) \in Nat /\ PairTwentieths(p) \in Nat
  <1>1. q.tolerance <= p.tolerance /\ q.tolerance \in Nat /\ p.tolerance \in Nat
    BY Counts DEF Cautious
  <1>2. SessionTenths(q) = SessionTenths(p) /\ SessionTenths(p) \in Nat
    <2>1. q.session = p.session
      BY DEF Cautious
    <2>2. SessionTenths(q) = SessionTenths(p)
      BY <2>1 DEF SessionTenths, Closed
    <2>3. SessionTenths(p) \in Nat
      BY DEF SessionTenths
    <2> QED BY <2>2, <2>3
  <1>3. IntentTenths(q) <= IntentTenths(p) /\ IntentTenths(q) \in Nat /\ IntentTenths(p) \in Nat
    <2>1. /\ q.intent = p.intent /\ p.intent \in Int /\ q.lift \in Int /\ p.lift \in Int
          /\ q.lift <= p.lift /\ p.intent >= -1
      <3>1. p.intent \in -1 .. 100 /\ q.lift \in 0 .. 100 /\ p.lift \in 0 .. 100
        BY Fields
      <3>2. q.intent = p.intent /\ q.lift <= p.lift
        BY DEF Cautious
      <3> QED BY <3>1, <3>2
    <2> QED BY <2>1 DEF IntentTenths, IntentSeen
  <1>4. DownTenths(q) <= DownTenths(p) /\ DownTenths(q) \in Nat /\ DownTenths(p) \in Nat
    <2>1. q.account = p.account /\ q.down >= p.down /\ q.down \in Nat /\ p.down \in Nat
      BY Fields DEF Cautious
    <2> QED BY <2>1 DEF DownTenths
  <1>5. /\ PairTwentieths(q) <= PairTwentieths(p)
        /\ PairTwentieths(q) \in Nat /\ PairTwentieths(p) \in Nat
    <2>1. /\ p.gbp \in -1 .. 1 /\ q.gbp \in -1 .. 1 /\ p.chf \in -1 .. 1 /\ q.chf \in -1 .. 1
      BY Fields
    <2>2. q.gbp <= p.gbp /\ q.chf <= p.chf
      BY DEF Cautious
    <2> QED BY <2>1, <2>2 DEF PairTwentieths
  <1> QED BY <1>1, <1>2, <1>3, <1>4, <1>5

LEMMA ProductsGrow ==
  ASSUME NEW a \in Nat, NEW b \in Nat, NEW c \in Nat, NEW d \in Nat, a <= b, c <= d
  PROVE  a * c <= b * d /\ a * c \in Nat /\ b * d \in Nat
  <1>1. a * c <= b * c
    BY ProductGrows
  <1>2. c * b <= d * b
    BY ProductGrows
  <1>3. c * b = b * c /\ d * b = b * d /\ a * c \in Nat /\ b * c \in Nat /\ b * d \in Nat
    OBVIOUS
  <1> QED BY <1>1, <1>2, <1>3

LEMMA DynamicLess ==
  ASSUME NEW p, Plausible(p), NEW q, Plausible(q), Cautious(q, p)
  PROVE  DynamicSize(q) <= DynamicSize(p) /\ DynamicSize(q) \in Nat /\ DynamicSize(p) \in Nat
  <1> DEFINE a(x) == x.tolerance * SessionTenths(x)
             b(x) == a(x) * IntentTenths(x)
             c(x) == b(x) * DownTenths(x)
             risk(x) == c(x) * PairTwentieths(x)
             scaled(x) == (BaseSize(x) * DynamicRisk(x)) \div 40000
  <1>1. a(q) <= a(p) /\ a(q) \in Nat /\ a(p) \in Nat
    BY SharesLess, ProductsGrow
  <1>x. \A x : DynamicRisk(x) = IF risk(x) = 0 THEN 0 ELSE Within(10000, 80000, risk(x))
    BY DEF DynamicRisk
  <1> HIDE DEF a
  <1>2. b(q) <= b(p) /\ b(q) \in Nat /\ b(p) \in Nat
    BY <1>1, SharesLess, ProductsGrow
  <1> HIDE DEF b
  <1>3. c(q) <= c(p) /\ c(q) \in Nat /\ c(p) \in Nat
    BY <1>2, SharesLess, ProductsGrow
  <1> HIDE DEF c
  <1>4. risk(q) <= risk(p) /\ risk(q) \in Nat /\ risk(p) \in Nat
    BY <1>3, SharesLess, ProductsGrow
  <1> HIDE DEF risk
  <1>5. DynamicRisk(q) <= DynamicRisk(p) /\ DynamicRisk(q) \in Nat /\ DynamicRisk(p) \in Nat
        /\ (DynamicRisk(p) = 0 => DynamicRisk(q) = 0)
    <2>1. \A n \in Int : Within(10000, 80000, n)
                           = IF n <= 10000 THEN 10000 ELSE IF n >= 80000 THEN 80000 ELSE n
      BY WithinIs
    <2> QED BY <1>x, <1>4, <2>1
  <1>6. BaseSize(q) <= BaseSize(p) /\ BaseSize(q) \in Nat /\ BaseSize(p) \in Nat
    <2>1. q.account = p.account
      BY DEF Cautious
    <2> QED BY <2>1, ManagerSizeLess DEF BaseSize
  <1>7. scaled(q) <= scaled(p) /\ scaled(q) \in Int /\ scaled(p) \in Int
    <2>1. /\ BaseSize(q) * DynamicRisk(q) <= BaseSize(p) * DynamicRisk(p)
          /\ BaseSize(q) * DynamicRisk(q) \in Nat /\ BaseSize(p) * DynamicRisk(p) \in Nat
      BY <1>5, <1>6, ProductsGrow
    <2> QED BY <2>1, QuotientGrows, Quotients
  <1>8. \A x : DynamicSize(x) = IF DynamicRisk(x) = 0 THEN 0 ELSE Max({1, scaled(x)})
    BY DEF DynamicSize
  <1> HIDE DEF scaled
  <1>9. ASSUME NEW n \in Int PROVE Max({1, n}) = IF 1 >= n THEN 1 ELSE n
    <2>1. /\ Max({1, n}) \in Int /\ Max({1, n}) >= 1 /\ Max({1, n}) >= n
          /\ Max({1, n}) \in {1, n}
      BY MaxOfTwo
    <2> QED BY <2>1
  <1>10. DynamicSize(q) = (IF DynamicRisk(q) = 0 THEN 0 ELSE IF 1 >= scaled(q) THEN 1 ELSE scaled(q))
    BY <1>7, <1>8, <1>9
  <1>11. DynamicSize(p) = (IF DynamicRisk(p) = 0 THEN 0 ELSE IF 1 >= scaled(p) THEN 1 ELSE scaled(p))
    BY <1>7, <1>8, <1>9
  <1> QED BY <1>5, <1>7, <1>10, <1>11

\* The score adds the same signs up.
LEMMA ScoreMore ==
  ASSUME NEW p, Plausible(p), NEW q, Plausible(q), Cautious(q, p)
  PROVE  RiskScore(q) >= RiskScore(p)
  <1>1. /\ FromEntry(ManagerStop(p)) \in Int /\ FromEntry(ManagerStop(q)) \in Int
        /\ FromEntry(ManagerStop(p)) <= FromEntry(ManagerStop(q))
    BY ManagerStops, WiderStop
  <1>2. /\ q.account = p.account /\ q.down >= p.down /\ q.down \in Nat /\ p.down \in Nat
        /\ q.losses >= p.losses /\ q.losses \in Nat /\ p.losses \in Nat
    BY Fields DEF Cautious
  <1> QED BY <1>1, <1>2 DEF RiskScore

\* What is let through with more to be careful of is let through without it.
LEMMA LetThrough ==
  ASSUME NEW p, Plausible(p), NEW q, Plausible(q), Cautious(q, p), q.atr = p.atr,
         Rejection(q) = Allowed
  PROVE  Rejection(p) = Allowed
  <1>1. /\ q.session \notin {"weekend", "holiday"} /\ DownTenths(q) # 0 /\ IntentTenths(q) # 0
        /\ ManagerApproves(q) /\ ~InNoise(q) /\ ~PaysTooLittle(q)
    BY WhatIsAllowed
  <1>2. /\ q.session = p.session /\ q.zones = p.zones /\ q.direction = p.direction /\ q.account = p.account
        /\ q.down >= p.down /\ q.losses >= p.losses /\ (q.limits => p.limits) /\ (p.alarm => q.alarm)
    BY DEF Cautious
  <1>3. AdaptiveStop(q) = AdaptiveStop(p) /\ (Buys(q) <=> Buys(p))
    BY <1>2 DEF AdaptiveStop, Behind, Buys, Buffer
  <1>4. ~Closed(p)
    BY <1>1, <1>2 DEF Closed
  <1>5. DownTenths(p) # 0
    BY <1>1, SharesLess
  <1>6. IntentTenths(p) # 0
    BY <1>1, SharesLess
  <1>7. ManagerApproves(p)
    <2>1. /\ FromEntry(ManagerStop(p)) \in Int /\ FromEntry(ManagerStop(q)) \in Int
          /\ FromEntry(ManagerStop(p)) <= FromEntry(ManagerStop(q))
      BY ManagerStops, WiderStop
    <2>2. q.down \in Nat /\ p.down \in Nat /\ q.losses \in Nat /\ p.losses \in Nat
      BY Fields
    <2> QED BY <1>1, <1>2, <2>1, <2>2 DEF ManagerApproves
  <1>8. ~InNoise(p)
    BY <1>1, <1>3 DEF InNoise
  <1>9. ~PaysTooLittle(p)
    <2>1. AdaptiveStop(p) \in Int
      BY AdaptiveSide
    <2>2. TakeProfit(q, AdaptiveStop(p)) = TakeProfit(p, AdaptiveStop(p)) /\ TakeProfit(p, AdaptiveStop(p)) \in Int
      BY <1>3, <2>1 DEF TakeProfit, FromEntry
    <2>3. Slippage(p) <= Slippage(q) /\ Slippage(p) \in Int /\ Slippage(q) \in Int
      BY <1>2 DEF Slippage
    <2> QED BY <1>1, <1>3, <2>1, <2>2, <2>3 DEF PaysTooLittle
  <1> QED BY <1>4, <1>5, <1>6, <1>7, <1>8, <1>9, Zenon DEF Rejection

\* n calls of the guardrail.
LEMMA OutcomeIs ==
  ASSUME NEW p, Plausible(p), NEW n \in 0 .. 2
  PROVE  /\ Outcome(p, n).reason = Rejection(p) /\ Outcome(p, n).score = RiskScore(p)
         /\ Outcome(p, n).guarded = n
         /\ Outcome(p, 0).size = 10 * DynamicSize(p)
         /\ n < 2 => /\ Outcome(p, n + 1) = Enhanced(p, Outcome(p, n))
                     /\ Outcome(p, n + 1).size = IF p.uncertain THEN (Outcome(p, n).size * 7) \div 10
                                                ELSE Outcome(p, n).size
  <1> DEFINE a == AssessmentOf(p)
             b == Enhanced(p, a)
             c == Enhanced(p, b)
  <1>1. Outcome(p, 0) = a /\ Outcome(p, 1) = b /\ Outcome(p, 2) = c
    BY DEF Outcome
  <1>2. /\ a.reason = Rejection(p) /\ a.score = RiskScore(p) /\ a.guarded = 0
        /\ a.size = 10 * DynamicSize(p)
    BY DEF AssessmentOf
  <1>3. ASSUME NEW x, x \in {a, b}
        PROVE  /\ Enhanced(p, x).reason = x.reason /\ Enhanced(p, x).score = x.score
               /\ Enhanced(p, x).guarded = x.guarded + 1
               /\ Enhanced(p, x).size = IF p.uncertain THEN (x.size * 7) \div 10 ELSE x.size
    BY <1>3 DEF Enhanced, AssessmentOf
  <1>4. n = 0 \/ n = 1 \/ n = 2
    OBVIOUS
  <1> HIDE DEF a
  <1>5. /\ b.reason = Rejection(p) /\ b.score = RiskScore(p) /\ b.guarded = 1
        /\ b.size = IF p.uncertain THEN (a.size * 7) \div 10 ELSE a.size
    BY <1>2, <1>3
  <1> HIDE DEF b
  <1>6. /\ c.reason = Rejection(p) /\ c.score = RiskScore(p) /\ c.guarded = 2
        /\ c.size = IF p.uncertain THEN (b.size * 7) \div 10 ELSE b.size
    BY <1>3, <1>5
  <1>7. b = Enhanced(p, a) /\ c = Enhanced(p, b)
    BY DEF b
  <1> HIDE DEF c
  <1>8. CASE n = 0
    BY <1>1, <1>2, <1>5, <1>7, <1>8
  <1>9. CASE n = 1
    BY <1>1, <1>2, <1>5, <1>6, <1>7, <1>9
  <1>10. CASE n = 2
    BY <1>1, <1>2, <1>6, <1>10
  <1> QED BY <1>4, <1>8, <1>9, <1>10

\* The guardrail takes three tenths of both, or only of the more uncertain one.
LEMMA OutcomeLess ==
  ASSUME NEW p, Plausible(p), NEW q, Plausible(q), Cautious(q, p), NEW n \in 0 .. 2
  PROVE  Outcome(q, n).size <= Outcome(p, n).size
  <1> DEFINE Less(k) == /\ Outcome(q, k).size <= Outcome(p, k).size
                        /\ Outcome(q, k).size \in Nat /\ Outcome(p, k).size \in Nat
  <1>1. Less(0)
    <2>1. Outcome(q, 0).size = 10 * DynamicSize(q) /\ Outcome(p, 0).size = 10 * DynamicSize(p)
      BY OutcomeIs
    <2> QED BY <2>1, DynamicLess
  <1>2. ASSUME NEW k \in {0, 1}, Less(k) PROVE Less(k + 1)
    <2>1. k \in 0 .. 2 /\ k < 2
      OBVIOUS
    <2>2. ASSUME NEW x, Plausible(x)
          PROVE  Outcome(x, k + 1).size = IF x.uncertain THEN (Outcome(x, k).size * 7) \div 10
                                          ELSE Outcome(x, k).size
      BY <2>1, <2>2, OutcomeIs
    <2>3. p.uncertain => q.uncertain
      BY DEF Cautious
    <2>4. \A x, y \in Nat : x <= y => /\ (x * 7) \div 10 <= (y * 7) \div 10 /\ (x * 7) \div 10 <= y
                                      /\ (x * 7) \div 10 \in Nat /\ (y * 7) \div 10 \in Nat
      OBVIOUS
    <2> QED BY <1>2, <2>2, <2>3, <2>4
  <1>3. Less(1) /\ Less(2)
    <2>1. Less(0 + 1)
      BY <1>1, <1>2
    <2>2. 0 + 1 = 1 /\ 1 + 1 = 2
      OBVIOUS
    <2>3. Less(1)
      BY <2>1, <2>2
    <2>4. Less(1 + 1)
      BY <1>2, <2>3
    <2> QED BY <2>2, <2>3, <2>4
  <1>4. n = 0 \/ n = 1 \/ n = 2
    OBVIOUS
  <1> QED BY <1>1, <1>3, <1>4

\* What the property varies is plausible, and calls for no less caution.
LEMMA OtherCircumstances ==
  ASSUME NEW p, Plausible(p)
  PROVE  \A q \in Warier(p) \cup Rougher(p) : Plausible(q) /\ Cautious(q, p)
  <1>1. CautionFields \subseteq DOMAIN p
    BY DEF Plausible
  <1>2. /\ p.strength \in Nat /\ p.strength <= 100 /\ p.lift \in Nat /\ p.gbp \in Int /\ p.chf \in Int
        /\ p.gbp >= -1 /\ p.chf >= -1 /\ p.tolerance \in Nat /\ p.tolerance >= 1 /\ p.lift <= 100
    <2>1. p.strength \in 0 .. 100 /\ p.lift \in 0 .. 100 /\ p.gbp \in -1 .. 1 /\ p.chf \in -1 .. 1
      BY Fields
    <2> QED BY <2>1, Counts
  <1>3. p.losses \in Nat /\ p.down \in Nat /\ p.swings \in Nat \ {0} /\ p.atr \in Nat
    BY Fields
  <1>4. ASSUME NEW q, q = [p EXCEPT !.losses = @ + 1]
        PROVE  Plausible(q) /\ Cautious(q, p)
    <2>1. p.losses + 1 \in Nat
      BY <1>2, <1>3
    <2>2. q.losses = p.losses + 1 /\ DOMAIN q = DOMAIN p
      BY <1>1, <1>4 DEF CautionFields
    <2>3. Plausible(q)
      BY <1>4, <2>1, <2>2 DEF Plausible
    <2>4. /\ q.direction = p.direction /\ q.usual = p.usual /\ q.support = p.support /\ q.resistance = p.resistance /\ q.zones = p.zones
          /\ q.session = p.session /\ q.regime = p.regime /\ q.record = p.record /\ q.account = p.account /\ q.volatile = p.volatile /\ q.intent = p.intent
          /\ q.down = p.down /\ q.swings = p.swings /\ q.strength = p.strength /\ q.lift = p.lift /\ q.gbp = p.gbp /\ q.chf = p.chf
          /\ q.tolerance = p.tolerance /\ q.atr = p.atr /\ q.limits = p.limits /\ q.alarm = p.alarm /\ q.uncertain = p.uncertain
      BY <1>4
    <2> QED BY <1>2, <1>3, <1>4, <2>2, <2>3, <2>4 DEF Cautious
  <1>5. ASSUME NEW q, q = [p EXCEPT !.down = @ + 1]
        PROVE  Plausible(q) /\ Cautious(q, p)
    <2>1. p.down + 1 \in Nat
      BY <1>2, <1>3
    <2>2. q.down = p.down + 1 /\ DOMAIN q = DOMAIN p
      BY <1>1, <1>5 DEF CautionFields
    <2>3. Plausible(q)
      BY <1>5, <2>1, <2>2 DEF Plausible
    <2>4. /\ q.direction = p.direction /\ q.usual = p.usual /\ q.support = p.support /\ q.resistance = p.resistance /\ q.zones = p.zones
          /\ q.session = p.session /\ q.regime = p.regime /\ q.record = p.record /\ q.account = p.account /\ q.volatile = p.volatile /\ q.intent = p.intent
          /\ q.losses = p.losses /\ q.swings = p.swings /\ q.strength = p.strength /\ q.lift = p.lift /\ q.gbp = p.gbp /\ q.chf = p.chf
          /\ q.tolerance = p.tolerance /\ q.atr = p.atr /\ q.limits = p.limits /\ q.alarm = p.alarm /\ q.uncertain = p.uncertain
      BY <1>5
    <2> QED BY <1>2, <1>3, <1>5, <2>2, <2>3, <2>4 DEF Cautious
  <1>6. ASSUME NEW q, q = [p EXCEPT !.swings = 2 * @]
        PROVE  Plausible(q) /\ Cautious(q, p)
    <2>1. 2 * p.swings \in Nat \ {0}
      BY <1>2, <1>3
    <2>2. q.swings = 2 * p.swings /\ DOMAIN q = DOMAIN p
      BY <1>1, <1>6 DEF CautionFields
    <2>3. Plausible(q)
      BY <1>6, <2>1, <2>2 DEF Plausible
    <2>4. /\ q.direction = p.direction /\ q.usual = p.usual /\ q.support = p.support /\ q.resistance = p.resistance /\ q.zones = p.zones
          /\ q.session = p.session /\ q.regime = p.regime /\ q.record = p.record /\ q.account = p.account /\ q.volatile = p.volatile /\ q.intent = p.intent
          /\ q.losses = p.losses /\ q.down = p.down /\ q.strength = p.strength /\ q.lift = p.lift /\ q.gbp = p.gbp /\ q.chf = p.chf
          /\ q.tolerance = p.tolerance /\ q.atr = p.atr /\ q.limits = p.limits /\ q.alarm = p.alarm /\ q.uncertain = p.uncertain
      BY <1>6
    <2> QED BY <1>2, <1>3, <1>6, <2>2, <2>3, <2>4 DEF Cautious
  <1>7. ASSUME NEW q, q = [p EXCEPT !.strength = @ \div 2]
        PROVE  Plausible(q) /\ Cautious(q, p)
    <2>1. p.strength \div 2 \in 0 .. 100
      BY <1>2, <1>3
    <2>2. q.strength = p.strength \div 2 /\ DOMAIN q = DOMAIN p
      BY <1>1, <1>7 DEF CautionFields
    <2>3. Plausible(q)
      BY <1>7, <2>1, <2>2 DEF Plausible
    <2>4. /\ q.direction = p.direction /\ q.usual = p.usual /\ q.support = p.support /\ q.resistance = p.resistance /\ q.zones = p.zones
          /\ q.session = p.session /\ q.regime = p.regime /\ q.record = p.record /\ q.account = p.account /\ q.volatile = p.volatile /\ q.intent = p.intent
          /\ q.losses = p.losses /\ q.down = p.down /\ q.swings = p.swings /\ q.lift = p.lift /\ q.gbp = p.gbp /\ q.chf = p.chf
          /\ q.tolerance = p.tolerance /\ q.atr = p.atr /\ q.limits = p.limits /\ q.alarm = p.alarm /\ q.uncertain = p.uncertain
      BY <1>7
    <2> QED BY <1>2, <1>3, <1>7, <2>2, <2>3, <2>4 DEF Cautious
  <1>8. ASSUME NEW q, q = [p EXCEPT !.lift = 0]
        PROVE  Plausible(q) /\ Cautious(q, p)
    <2>1. 0 \in 0 .. 100
      BY <1>2, <1>3
    <2>2. q.lift = 0 /\ DOMAIN q = DOMAIN p
      BY <1>1, <1>8 DEF CautionFields
    <2>3. Plausible(q)
      BY <1>8, <2>1, <2>2 DEF Plausible
    <2>4. /\ q.direction = p.direction /\ q.usual = p.usual /\ q.support = p.support /\ q.resistance = p.resistance /\ q.zones = p.zones
          /\ q.session = p.session /\ q.regime = p.regime /\ q.record = p.record /\ q.account = p.account /\ q.volatile = p.volatile /\ q.intent = p.intent
          /\ q.losses = p.losses /\ q.down = p.down /\ q.swings = p.swings /\ q.strength = p.strength /\ q.gbp = p.gbp /\ q.chf = p.chf
          /\ q.tolerance = p.tolerance /\ q.atr = p.atr /\ q.limits = p.limits /\ q.alarm = p.alarm /\ q.uncertain = p.uncertain
      BY <1>8
    <2> QED BY <1>2, <1>3, <1>8, <2>2, <2>3, <2>4 DEF Cautious
  <1>9. ASSUME NEW q, q = [p EXCEPT !.uncertain = TRUE]
        PROVE  Plausible(q) /\ Cautious(q, p)
    <2>1. TRUE \in BOOLEAN
      BY <1>2, <1>3
    <2>2. q.uncertain = TRUE /\ DOMAIN q = DOMAIN p
      BY <1>1, <1>9 DEF CautionFields
    <2>3. Plausible(q)
      BY <1>9, <2>1, <2>2 DEF Plausible
    <2>4. /\ q.direction = p.direction /\ q.usual = p.usual /\ q.support = p.support /\ q.resistance = p.resistance /\ q.zones = p.zones
          /\ q.session = p.session /\ q.regime = p.regime /\ q.record = p.record /\ q.account = p.account /\ q.volatile = p.volatile /\ q.intent = p.intent
          /\ q.losses = p.losses /\ q.down = p.down /\ q.swings = p.swings /\ q.strength = p.strength /\ q.lift = p.lift /\ q.gbp = p.gbp
          /\ q.chf = p.chf /\ q.tolerance = p.tolerance /\ q.atr = p.atr /\ q.limits = p.limits /\ q.alarm = p.alarm
      BY <1>9
    <2> QED BY <1>2, <1>3, <1>9, <2>2, <2>3, <2>4 DEF Cautious
  <1>10. ASSUME NEW q, q = [p EXCEPT !.gbp = -1]
        PROVE  Plausible(q) /\ Cautious(q, p)
    <2>1. -1 \in -1 .. 1
      BY <1>2, <1>3
    <2>2. q.gbp = -1 /\ DOMAIN q = DOMAIN p
      BY <1>1, <1>10 DEF CautionFields
    <2>3. Plausible(q)
      BY <1>10, <2>1, <2>2 DEF Plausible
    <2>4. /\ q.direction = p.direction /\ q.usual = p.usual /\ q.support = p.support /\ q.resistance = p.resistance /\ q.zones = p.zones
          /\ q.session = p.session /\ q.regime = p.regime /\ q.record = p.record /\ q.account = p.account /\ q.volatile = p.volatile /\ q.intent = p.intent
          /\ q.losses = p.losses /\ q.down = p.down /\ q.swings = p.swings /\ q.strength = p.strength /\ q.lift = p.lift /\ q.chf = p.chf
          /\ q.tolerance = p.tolerance /\ q.atr = p.atr /\ q.limits = p.limits /\ q.alarm = p.alarm /\ q.uncertain = p.uncertain
      BY <1>10
    <2> QED BY <1>2, <1>3, <1>10, <2>2, <2>3, <2>4 DEF Cautious
  <1>11. ASSUME NEW q, q = [p EXCEPT !.chf = -1]
        PROVE  Plausible(q) /\ Cautious(q, p)
    <2>1. -1 \in -1 .. 1
      BY <1>2, <1>3
    <2>2. q.chf = -1 /\ DOMAIN q = DOMAIN p
      BY <1>1, <1>11 DEF CautionFields
    <2>3. Plausible(q)
      BY <1>11, <2>1, <2>2 DEF Plausible
    <2>4. /\ q.direction = p.direction /\ q.usual = p.usual /\ q.support = p.support /\ q.resistance = p.resistance /\ q.zones = p.zones
          /\ q.session = p.session /\ q.regime = p.regime /\ q.record = p.record /\ q.account = p.account /\ q.volatile = p.volatile /\ q.intent = p.intent
          /\ q.losses = p.losses /\ q.down = p.down /\ q.swings = p.swings /\ q.strength = p.strength /\ q.lift = p.lift /\ q.gbp = p.gbp
          /\ q.tolerance = p.tolerance /\ q.atr = p.atr /\ q.limits = p.limits /\ q.alarm = p.alarm /\ q.uncertain = p.uncertain
      BY <1>11
    <2> QED BY <1>2, <1>3, <1>11, <2>2, <2>3, <2>4 DEF Cautious
  <1>12. ASSUME NEW q, q = [p EXCEPT !.limits = FALSE]
        PROVE  Plausible(q) /\ Cautious(q, p)
    <2>1. FALSE \in BOOLEAN
      BY <1>2, <1>3
    <2>2. q.limits = FALSE /\ DOMAIN q = DOMAIN p
      BY <1>1, <1>12 DEF CautionFields
    <2>3. Plausible(q)
      BY <1>12, <2>1, <2>2 DEF Plausible
    <2>4. /\ q.direction = p.direction /\ q.usual = p.usual /\ q.support = p.support /\ q.resistance = p.resistance /\ q.zones = p.zones
          /\ q.session = p.session /\ q.regime = p.regime /\ q.record = p.record /\ q.account = p.account /\ q.volatile = p.volatile /\ q.intent = p.intent
          /\ q.losses = p.losses /\ q.down = p.down /\ q.swings = p.swings /\ q.strength = p.strength /\ q.lift = p.lift /\ q.gbp = p.gbp
          /\ q.chf = p.chf /\ q.tolerance = p.tolerance /\ q.atr = p.atr /\ q.alarm = p.alarm /\ q.uncertain = p.uncertain
      BY <1>12
    <2> QED BY <1>2, <1>3, <1>12, <2>2, <2>3, <2>4 DEF Cautious
  <1>13. ASSUME NEW q, q = [p EXCEPT !.alarm = TRUE]
        PROVE  Plausible(q) /\ Cautious(q, p)
    <2>1. TRUE \in BOOLEAN
      BY <1>2, <1>3
    <2>2. q.alarm = TRUE /\ DOMAIN q = DOMAIN p
      BY <1>1, <1>13 DEF CautionFields
    <2>3. Plausible(q)
      BY <1>13, <2>1, <2>2 DEF Plausible
    <2>4. /\ q.direction = p.direction /\ q.usual = p.usual /\ q.support = p.support /\ q.resistance = p.resistance /\ q.zones = p.zones
          /\ q.session = p.session /\ q.regime = p.regime /\ q.record = p.record /\ q.account = p.account /\ q.volatile = p.volatile /\ q.intent = p.intent
          /\ q.losses = p.losses /\ q.down = p.down /\ q.swings = p.swings /\ q.strength = p.strength /\ q.lift = p.lift /\ q.gbp = p.gbp
          /\ q.chf = p.chf /\ q.tolerance = p.tolerance /\ q.atr = p.atr /\ q.limits = p.limits /\ q.uncertain = p.uncertain
      BY <1>13
    <2> QED BY <1>2, <1>3, <1>13, <2>2, <2>3, <2>4 DEF Cautious
  <1>14. ASSUME NEW q, q = [p EXCEPT !.tolerance = 1]
        PROVE  Plausible(q) /\ Cautious(q, p)
    <2>1. 1 \in 1 .. 3
      BY <1>2, <1>3
    <2>2. q.tolerance = 1 /\ DOMAIN q = DOMAIN p
      BY <1>1, <1>14 DEF CautionFields
    <2>3. Plausible(q)
      BY <1>14, <2>1, <2>2 DEF Plausible
    <2>4. /\ q.direction = p.direction /\ q.usual = p.usual /\ q.support = p.support /\ q.resistance = p.resistance /\ q.zones = p.zones
          /\ q.session = p.session /\ q.regime = p.regime /\ q.record = p.record /\ q.account = p.account /\ q.volatile = p.volatile /\ q.intent = p.intent
          /\ q.losses = p.losses /\ q.down = p.down /\ q.swings = p.swings /\ q.strength = p.strength /\ q.lift = p.lift /\ q.gbp = p.gbp
          /\ q.chf = p.chf /\ q.atr = p.atr /\ q.limits = p.limits /\ q.alarm = p.alarm /\ q.uncertain = p.uncertain
      BY <1>14
    <2> QED BY <1>2, <1>3, <1>14, <2>2, <2>3, <2>4 DEF Cautious
  <1>15. ASSUME NEW q, q = [p EXCEPT !.atr = @ + 20], p.atr > 0
        PROVE  Plausible(q) /\ Cautious(q, p)
    <2>1. p.atr + 20 \in Nat
      BY <1>2, <1>3
    <2>2. q.atr = p.atr + 20 /\ DOMAIN q = DOMAIN p
      BY <1>1, <1>15 DEF CautionFields
    <2>3. Plausible(q)
      BY <1>15, <2>1, <2>2 DEF Plausible
    <2>4. /\ q.direction = p.direction /\ q.usual = p.usual /\ q.support = p.support /\ q.resistance = p.resistance /\ q.zones = p.zones
          /\ q.session = p.session /\ q.regime = p.regime /\ q.record = p.record /\ q.account = p.account /\ q.volatile = p.volatile /\ q.intent = p.intent
          /\ q.losses = p.losses /\ q.down = p.down /\ q.swings = p.swings /\ q.strength = p.strength /\ q.lift = p.lift /\ q.gbp = p.gbp
          /\ q.chf = p.chf /\ q.tolerance = p.tolerance /\ q.limits = p.limits /\ q.alarm = p.alarm /\ q.uncertain = p.uncertain
      BY <1>15
    <2> QED BY <1>2, <1>3, <1>15, <2>2, <2>3, <2>4 DEF Cautious
  <1>16. ASSUME NEW q, q = [p EXCEPT !.atr = 2 * @], p.atr > 0
        PROVE  Plausible(q) /\ Cautious(q, p)
    <2>1. 2 * p.atr \in Nat
      BY <1>2, <1>3
    <2>2. q.atr = 2 * p.atr /\ DOMAIN q = DOMAIN p
      BY <1>1, <1>16 DEF CautionFields
    <2>3. Plausible(q)
      BY <1>16, <2>1, <2>2 DEF Plausible
    <2>4. /\ q.direction = p.direction /\ q.usual = p.usual /\ q.support = p.support /\ q.resistance = p.resistance /\ q.zones = p.zones
          /\ q.session = p.session /\ q.regime = p.regime /\ q.record = p.record /\ q.account = p.account /\ q.volatile = p.volatile /\ q.intent = p.intent
          /\ q.losses = p.losses /\ q.down = p.down /\ q.swings = p.swings /\ q.strength = p.strength /\ q.lift = p.lift /\ q.gbp = p.gbp
          /\ q.chf = p.chf /\ q.tolerance = p.tolerance /\ q.limits = p.limits /\ q.alarm = p.alarm /\ q.uncertain = p.uncertain
      BY <1>16
    <2> QED BY <1>2, <1>3, <1>16, <2>2, <2>3, <2>4 DEF Cautious
  <1>17. ASSUME NEW q \in Warier(p) \cup Rougher(p) PROVE Plausible(q) /\ Cautious(q, p)
    <2>1. CASE q \in Warier(p)
      BY <2>1, <1>4, <1>5, <1>6, <1>7, <1>8, <1>9, <1>10, <1>11, <1>12, <1>13, <1>14 DEF Warier
    <2>2. CASE q \in Rougher(p)
      <3>1. p.atr > 0
        BY <1>3, <2>2 DEF Rougher
      <3> QED BY <2>2, <3>1, <1>15, <1>16 DEF Rougher
    <2> QED BY <1>17, <2>1, <2>2
  <1> QED BY <1>17

\* What is assessed is what the number of calls makes of the proposal.
AssessedIs == SizingInv /\ (assessed # Unassessed => assessed = Outcome(proposal, assessed.guarded))

LEMMA AssessedStep == AssessedIs /\ [SizingNext]_sizingVars => AssessedIs'
  <1> SUFFICES ASSUME AssessedIs, [SizingNext]_sizingVars PROVE AssessedIs'
    OBVIOUS
  <1>1. Plausible(proposal) /\ SizingInv'
    BY SizingStep DEF AssessedIs, SizingInv
  <1>2. CASE AssessTrade
    <2>1. assessed' = AssessmentOf(proposal) /\ proposal' = proposal
      BY <1>2 DEF AssessTrade
    <2>2. AssessmentOf(proposal) = Outcome(proposal, 0) /\ Outcome(proposal, 0).guarded = 0
      BY <1>1, OutcomeIs DEF Outcome
    <2> QED BY <1>1, <2>1, <2>2 DEF AssessedIs
  <1>3. CASE EnhanceSafety
    <2>1. /\ assessed # Unassessed /\ assessed.guarded < 2 /\ assessed' = Enhanced(proposal, assessed)
          /\ proposal' = proposal
      BY <1>3 DEF EnhanceSafety
    <2>2. assessed.guarded \in 0 .. 2 /\ assessed = Outcome(proposal, assessed.guarded)
      BY <2>1 DEF AssessedIs, SizingInv, Safeguarded, Assessments
    <2> DEFINE n == assessed.guarded
    <2>3. n \in 0 .. 2 /\ n + 1 \in 0 .. 2 /\ n < 2
      BY <2>1, <2>2
    <2>4. assessed' = Outcome(proposal, n + 1)
      BY <1>1, <2>1, <2>2, <2>3, OutcomeIs
    <2>5. Outcome(proposal, n + 1).guarded = n + 1
      BY <1>1, <2>3, OutcomeIs
    <2> QED BY <1>1, <2>1, <2>4, <2>5 DEF AssessedIs
  <1>4. CASE UNCHANGED sizingVars
    BY <1>1, <1>4 DEF AssessedIs, sizingVars
  <1> QED BY <1>2, <1>3, <1>4 DEF SizingNext

\* The size, the score and the verdict of a trade, against those of the same
\* trade with more to be careful of.
LEMMA CautionShrinks == AssessedIs => CautionNeverEnlarges
  <1> SUFFICES ASSUME AssessedIs, assessed # Unassessed,
                      NEW q \in Warier(proposal) \cup Rougher(proposal)
               PROVE  /\ Outcome(q, assessed.guarded).size <= assessed.size
                      /\ Outcome(q, assessed.guarded).score >= assessed.score
                      /\ Outcome(q, assessed.guarded).reason = Allowed /\ q.atr = proposal.atr
                           => assessed.reason = Allowed
    BY DEF CautionNeverEnlarges
  <1> DEFINE n == assessed.guarded
             p == proposal
  <1>1. Plausible(p) /\ n \in 0 .. 2 /\ assessed = Outcome(p, n)
    BY DEF AssessedIs, SizingInv, Safeguarded, Assessments
  <1>2. Plausible(q) /\ Cautious(q, p)
    BY <1>1, OtherCircumstances
  <1> HIDE DEF n, p
  <1>3. Outcome(q, n).size <= Outcome(p, n).size
    BY <1>1, <1>2, OutcomeLess
  <1>4. Outcome(q, n).score = RiskScore(q) /\ Outcome(p, n).score = RiskScore(p)
    BY <1>1, <1>2, OutcomeIs
  <1>5. Outcome(q, n).reason = Rejection(q) /\ Outcome(p, n).reason = Rejection(p)
    BY <1>1, <1>2, OutcomeIs
  <1>6. RiskScore(q) >= RiskScore(p)
    BY <1>1, <1>2, ScoreMore
  <1>7. Rejection(q) = Allowed /\ q.atr = p.atr => Rejection(p) = Allowed
    BY <1>1, <1>2, LetThrough
  <1> QED BY <1>1, <1>3, <1>4, <1>5, <1>6, <1>7 DEF n, p

FromAdx(e) == IF e.adx < 40 THEN 140 ELSE 10
FromRsi(e) == IF e.rsi = -1 \/ e.rsi \in 45 .. 55 THEN 40 ELSE IF e.rsi \in 40 .. 60 THEN 20 ELSE 10
FromHist(e) == IF e.hist < 2 THEN 40 ELSE IF e.hist < 5 THEN 20 ELSE 10
FromTypes(e) == Plus(e.types = <<>>, 20) + Plus({"bullish", "bearish"} \subseteq ToSet(e.types), 40)
FromSession(e) == Plus(e.session = "weekend", 80)
                  + Plus(e.session = "asian" /\ e.intent.phase = "liquidity_sweep", 40)
                  + Plus(e.session = "overlap" /\ e.intent.move = "range", 30)
FromIntent(e) == Plus(e.intent.confidence < 50, 50) + Plus(e.intent.phase = "compression", 20)
FromConflict(e) == Plus(Conflict(e), 40)
FromNear(e) == Plus(e.near, 30)
FromEvent(e) == Plus(e.event, 60)

LEMMA PlusIs ==
  ASSUME NEW c, NEW n \in Nat
  PROVE  Plus(c, n) \in Nat /\ Plus(c, n) <= n
  BY DEF Plus

\* The points of each respect in which something can be in doubt.
LEMMA PointsAreNatural ==
  ASSUME NEW e
  PROVE  /\ FromAdx(e) \in {10, 140} /\ FromRsi(e) \in {10, 20, 40} /\ FromHist(e) \in {10, 20, 40}
         /\ FromTypes(e) \in Nat /\ FromSession(e) \in Nat /\ FromIntent(e) \in Nat
         /\ FromConflict(e) \in {0, 40} /\ FromNear(e) \in {0, 30} /\ FromEvent(e) \in {0, 60}
  <1>1. FromAdx(e) \in {10, 140} /\ FromRsi(e) \in {10, 20, 40} /\ FromHist(e) \in {10, 20, 40}
    BY DEF FromAdx, FromRsi, FromHist
  <1>2. FromTypes(e) \in Nat /\ FromSession(e) \in Nat /\ FromIntent(e) \in Nat
    BY DEF FromTypes, FromSession, FromIntent, Plus
  <1>3. FromConflict(e) \in {0, 40} /\ FromNear(e) \in {0, 30} /\ FromEvent(e) \in {0, 60}
    BY DEF FromConflict, FromNear, FromEvent, Plus
  <1> QED BY <1>1, <1>2, <1>3

\* More doubtful in every respect.
Doubtful(q, p) ==
  /\ FromAdx(q) >= FromAdx(p) /\ FromRsi(q) >= FromRsi(p) /\ FromHist(q) >= FromHist(p)
  /\ FromTypes(q) >= FromTypes(p) /\ FromSession(q) >= FromSession(p)
  /\ FromIntent(q) >= FromIntent(p) /\ FromConflict(q) >= FromConflict(p)
  /\ FromNear(q) >= FromNear(p) /\ FromEvent(q) >= FromEvent(p)

LEMMA Capped ==
  ASSUME NEW n \in Int
  PROVE  Min({200, n}) = IF n <= 200 THEN n ELSE 200
  <1>1. 200 \in Int
    OBVIOUS
  <1>2. /\ Min({200, n}) \in Int /\ Min({200, n}) <= 200 /\ Min({200, n}) <= n /\ Min({200, n}) \in {200, n}
    BY <1>1, MinOfTwo
  <1> QED BY <1>2

\* More points in each respect are no fewer in either layer.
LEMMA DoubtsAdd ==
  ASSUME NEW q, NEW p, Doubtful(q, p)
  PROVE  /\ Technical(p) \in 0 .. 200 /\ Technical(q) \in 0 .. 200 /\ Technical(p) <= Technical(q)
         /\ Behavioral(p) \in 0 .. 200 /\ Behavioral(q) \in 0 .. 200 /\ Behavioral(p) <= Behavioral(q)
         /\ p.adx < 40 => Technical(p) >= 160
  <1> DEFINE t(e) == FromAdx(e) + FromRsi(e) + FromHist(e) + FromTypes(e)
             b(e) == FromSession(e) + FromIntent(e) + FromConflict(e) + FromNear(e) + FromEvent(e)
  <1>1. t(p) \in Nat /\ t(q) \in Nat /\ t(p) <= t(q) /\ b(p) \in Nat /\ b(q) \in Nat /\ b(p) <= b(q)
    BY PointsAreNatural DEF Doubtful
  <1>2. p.adx < 40 => t(p) >= 160
    <2>1. p.adx < 40 => FromAdx(p) = 140
      BY DEF FromAdx
    <2> QED BY <2>1, PointsAreNatural
  <1>3. ASSUME NEW e PROVE Technical(e) = Min({200, t(e)}) /\ Behavioral(e) = Min({200, b(e)})
    <2> DEFINE tt == (IF e.adx < 40 THEN 140 ELSE 10)
            + (IF e.rsi = -1 \/ e.rsi \in 45 .. 55 THEN 40 ELSE IF e.rsi \in 40 .. 60 THEN 20 ELSE 10)
            + (IF e.hist < 2 THEN 40 ELSE IF e.hist < 5 THEN 20 ELSE 10)
            + Plus(e.types = <<>>, 20) + Plus({"bullish", "bearish"} \subseteq ToSet(e.types), 40)
               bb == Plus(e.session = "weekend", 80)
            + Plus(e.session = "asian" /\ e.intent.phase = "liquidity_sweep", 40)
            + Plus(e.session = "overlap" /\ e.intent.move = "range", 30)
            + Plus(e.intent.confidence < 50, 50) + Plus(e.intent.phase = "compression", 20)
            + Plus(Conflict(e), 40) + Plus(e.near, 30) + Plus(e.event, 60)
    <2>1. tt = t(e)
      <3>1. Plus(e.types = <<>>, 20) \in Nat /\ Plus({"bullish", "bearish"} \subseteq ToSet(e.types), 40) \in Nat
        BY PlusIs
      <3>2. FromAdx(e) \in Nat /\ FromRsi(e) \in Nat /\ FromHist(e) \in Nat
        BY PointsAreNatural
      <3> QED BY <3>1, <3>2 DEF FromAdx, FromRsi, FromHist, FromTypes
    <2>2. bb = b(e)
      <3>1. /\ Plus(e.session = "weekend", 80) \in Nat
            /\ Plus(e.session = "asian" /\ e.intent.phase = "liquidity_sweep", 40) \in Nat
            /\ Plus(e.session = "overlap" /\ e.intent.move = "range", 30) \in Nat
            /\ Plus(e.intent.confidence < 50, 50) \in Nat /\ Plus(e.intent.phase = "compression", 20) \in Nat
            /\ Plus(Conflict(e), 40) \in Nat /\ Plus(e.near, 30) \in Nat /\ Plus(e.event, 60) \in Nat
        BY PlusIs
      <3> QED BY <3>1 DEF FromSession, FromIntent, FromConflict, FromNear, FromEvent
    <2>3. Technical(e) = Min({200, tt}) /\ Behavioral(e) = Min({200, bb})
      BY DEF Technical, Behavioral
    <2> HIDE DEF tt, bb, t, b
    <2> QED BY <2>1, <2>2, <2>3
  <1> HIDE DEF t, b
  <1>4. ASSUME NEW e, t(e) \in Int, b(e) \in Int
        PROVE  /\ Technical(e) = IF t(e) <= 200 THEN t(e) ELSE 200
               /\ Behavioral(e) = IF b(e) <= 200 THEN b(e) ELSE 200
    <2>1. /\ Min({200, t(e)}) = IF t(e) <= 200 THEN t(e) ELSE 200
          /\ Min({200, b(e)}) = IF b(e) <= 200 THEN b(e) ELSE 200
      BY <1>4, Capped
    <2>2. Technical(e) = Min({200, t(e)}) /\ Behavioral(e) = Min({200, b(e)})
      BY <1>3
    <2> QED BY <2>1, <2>2
  <1>5. /\ Technical(p) = IF t(p) <= 200 THEN t(p) ELSE 200
        /\ Technical(q) = IF t(q) <= 200 THEN t(q) ELSE 200
        /\ Behavioral(p) = IF b(p) <= 200 THEN b(p) ELSE 200
        /\ Behavioral(q) = IF b(q) <= 200 THEN b(q) ELSE 200
    BY <1>1, <1>4
  <1> QED BY <1>1, <1>2, <1>5

\* Combining the two layers keeps the order, and never loses the greater one.
LEMMA ComposedMore ==
  ASSUME NEW t \in 0 .. 200, NEW b \in 0 .. 200, NEW u \in 0 .. 200, NEW c \in 0 .. 200, t <= u, b <= c
  PROVE  /\ Composed(t, b) <= Composed(u, c) /\ Composed(t, b) \in Int /\ Composed(u, c) \in Int
         /\ Composed(t, b) >= t
  <1> DEFINE all(m, n) == Max({m, n}) + (3 * Min({m, n})) \div 10
  <1>1. ASSUME NEW m \in 0 .. 200, NEW n \in 0 .. 200
        PROVE  /\ Max({m, n}) = IF m >= n THEN m ELSE n
               /\ Min({m, n}) = IF m <= n THEN m ELSE n
    <2>1. m \in Int /\ n \in Int
      OBVIOUS
    <2>2. Max({m, n}) \in Int /\ Max({m, n}) >= m /\ Max({m, n}) >= n /\ Max({m, n}) \in {m, n}
      BY <2>1, MaxOfTwo
    <2>3. Min({m, n}) \in Int /\ Min({m, n}) <= m /\ Min({m, n}) <= n /\ Min({m, n}) \in {m, n}
      BY <2>1, MinOfTwo
    <2> QED BY <2>1, <2>2, <2>3
  <1>2. all(t, b) = (IF t >= b THEN t ELSE b) + (3 * (IF t <= b THEN t ELSE b)) \div 10
    <2>1. Max({t, b}) = (IF t >= b THEN t ELSE b) /\ Min({t, b}) = (IF t <= b THEN t ELSE b)
      BY <1>1
    <2> QED BY <2>1
  <1>3. all(u, c) = (IF u >= c THEN u ELSE c) + (3 * (IF u <= c THEN u ELSE c)) \div 10
    <2>1. Max({u, c}) = (IF u >= c THEN u ELSE c) /\ Min({u, c}) = (IF u <= c THEN u ELSE c)
      BY <1>1
    <2> QED BY <2>1
  <1>4. Composed(t, b) = Min({200, all(t, b)}) /\ Composed(u, c) = Min({200, all(u, c)})
    BY DEF Composed
  <1> HIDE DEF all
  <1>5. all(t, b) \in Int /\ all(u, c) \in Int /\ all(t, b) <= all(u, c) /\ all(t, b) >= t
    BY <1>2, <1>3
  <1>6. /\ Min({200, all(t, b)}) = IF all(t, b) <= 200 THEN all(t, b) ELSE 200
        /\ Min({200, all(u, c)}) = IF all(u, c) <= 200 THEN all(u, c) ELSE 200
    BY <1>5, Capped
  <1> QED BY <1>4, <1>5, <1>6

\* More doubt leaves no more confidence; an ADX below 40 is doubt enough.
LEMMA DoubtCosts ==
  ASSUME NEW q, NEW p, Doubtful(q, p)
  PROVE  /\ AssessDoubt(q).adjust <= AssessDoubt(p).adjust
         /\ AssessDoubt(p).high => AssessDoubt(q).high
         /\ p.adx < 40 => AssessDoubt(p).high
  <1> DEFINE less == Composed(Technical(p), Behavioral(p))
             more == Composed(Technical(q), Behavioral(q))
  <1>1. /\ Technical(p) \in 0 .. 200 /\ Technical(q) \in 0 .. 200 /\ Technical(p) <= Technical(q)
        /\ Behavioral(p) \in 0 .. 200 /\ Behavioral(q) \in 0 .. 200 /\ Behavioral(p) <= Behavioral(q)
        /\ p.adx < 40 => Technical(p) >= 160
    BY DoubtsAdd
  <1>2. less <= more /\ less \in Int /\ more \in Int /\ less >= Technical(p)
    BY <1>1, ComposedMore
  <1>3. /\ AssessDoubt(p).high <=> less > 130
        /\ AssessDoubt(q).high <=> more > 130
        /\ AssessDoubt(p).adjust = IF less <= 80 THEN 100 ELSE IF less <= 110 THEN 80
                                   ELSE IF less <= 140 THEN 50 ELSE 0
        /\ AssessDoubt(q).adjust = IF more <= 80 THEN 100 ELSE IF more <= 110 THEN 80
                                   ELSE IF more <= 140 THEN 50 ELSE 0
    BY DEF AssessDoubt
  <1> HIDE DEF less, more
  <1>4. AssessDoubt(q).adjust <= AssessDoubt(p).adjust
    BY <1>2, <1>3
  <1>5. p.adx < 40 => less > 130
    BY <1>1, <1>2
  <1> QED BY <1>2, <1>3, <1>4, <1>5

Respects == {"adx", "rsi", "hist", "types", "session", "near", "event"}

\* What the property varies is more doubtful in one respect, and alike in the others.
LEMMA WorseIsMore ==
  ASSUME NEW p, Respects \subseteq DOMAIN p
  PROVE  Doubtful(p, p) /\ \A q \in Worse(p) : Doubtful(q, p)
  <1>1. Doubtful(p, p)
    BY PointsAreNatural DEF Doubtful
  <1>2. ASSUME NEW a \in {-1, 15, 30}, NEW q, q = [p EXCEPT !.adx = a]
        PROVE  Doubtful(q, p)
    <2>1. /\ q.adx = a /\ q.rsi = p.rsi /\ q.hist = p.hist /\ q.types = p.types /\ q.session = p.session
          /\ q.intent = p.intent /\ q.near = p.near /\ q.event = p.event
      BY <1>2 DEF Respects
    <2>2. FromAdx(q) >= FromAdx(p)
      BY <2>1 DEF FromAdx
    <2>3. /\ FromRsi(q) = FromRsi(p) /\ FromHist(q) = FromHist(p) /\ FromTypes(q) = FromTypes(p)
          /\ FromSession(q) = FromSession(p) /\ FromIntent(q) = FromIntent(p)
          /\ FromConflict(q) = FromConflict(p) /\ FromNear(q) = FromNear(p) /\ FromEvent(q) = FromEvent(p)
      BY <2>1 DEF FromRsi, FromHist, FromTypes, FromSession, FromIntent, FromConflict, Conflict,
                  FromNear, FromEvent
    <2> QED BY <2>2, <2>3, PointsAreNatural DEF Doubtful
  <1>3. ASSUME NEW r \in {50, -1}, NEW q, q = [p EXCEPT !.rsi = r]
        PROVE  Doubtful(q, p)
    <2>1. /\ q.adx = p.adx /\ q.rsi = r /\ q.hist = p.hist /\ q.types = p.types /\ q.session = p.session
          /\ q.intent = p.intent /\ q.near = p.near /\ q.event = p.event
      BY <1>3 DEF Respects
    <2>2. FromRsi(q) >= FromRsi(p)
      BY <2>1 DEF FromRsi
    <2>3. /\ FromAdx(q) = FromAdx(p) /\ FromHist(q) = FromHist(p) /\ FromTypes(q) = FromTypes(p)
          /\ FromSession(q) = FromSession(p) /\ FromIntent(q) = FromIntent(p)
          /\ FromConflict(q) = FromConflict(p) /\ FromNear(q) = FromNear(p) /\ FromEvent(q) = FromEvent(p)
      BY <2>1 DEF FromAdx, FromHist, FromTypes, FromSession, FromIntent, FromConflict, Conflict,
                  FromNear, FromEvent
    <2> QED BY <2>2, <2>3, PointsAreNatural DEF Doubtful
  <1>4. ASSUME NEW q, q = [p EXCEPT !.hist = -1]
        PROVE  Doubtful(q, p)
    <2>1. /\ q.adx = p.adx /\ q.rsi = p.rsi /\ q.hist = -1 /\ q.types = p.types /\ q.session = p.session
          /\ q.intent = p.intent /\ q.near = p.near /\ q.event = p.event
      BY <1>4 DEF Respects
    <2>2. FromHist(q) >= FromHist(p)
      BY <2>1 DEF FromHist
    <2>3. /\ FromAdx(q) = FromAdx(p) /\ FromRsi(q) = FromRsi(p) /\ FromTypes(q) = FromTypes(p)
          /\ FromSession(q) = FromSession(p) /\ FromIntent(q) = FromIntent(p)
          /\ FromConflict(q) = FromConflict(p) /\ FromNear(q) = FromNear(p) /\ FromEvent(q) = FromEvent(p)
      BY <2>1 DEF FromAdx, FromRsi, FromTypes, FromSession, FromIntent, FromConflict, Conflict,
                  FromNear, FromEvent
    <2> QED BY <2>2, <2>3, PointsAreNatural DEF Doubtful
  <1>5. ASSUME NEW q, q = [p EXCEPT !.near = TRUE]
        PROVE  Doubtful(q, p)
    <2>1. /\ q.adx = p.adx /\ q.rsi = p.rsi /\ q.hist = p.hist /\ q.types = p.types /\ q.session = p.session
          /\ q.intent = p.intent /\ q.near = TRUE /\ q.event = p.event
      BY <1>5 DEF Respects
    <2>2. FromNear(q) >= FromNear(p)
      BY <2>1 DEF FromNear, Plus
    <2>3. /\ FromAdx(q) = FromAdx(p) /\ FromRsi(q) = FromRsi(p) /\ FromTypes(q) = FromTypes(p)
          /\ FromSession(q) = FromSession(p) /\ FromIntent(q) = FromIntent(p) /\ FromHist(q) = FromHist(p)
          /\ FromConflict(q) = FromConflict(p) /\ FromEvent(q) = FromEvent(p)
      BY <2>1 DEF FromAdx, FromRsi, FromTypes, FromSession, FromIntent, FromConflict, Conflict,
                  FromHist, FromEvent
    <2> QED BY <2>2, <2>3, PointsAreNatural DEF Doubtful
  <1>6. ASSUME NEW q, q = [p EXCEPT !.event = TRUE]
        PROVE  Doubtful(q, p)
    <2>1. /\ q.adx = p.adx /\ q.rsi = p.rsi /\ q.hist = p.hist /\ q.types = p.types /\ q.session = p.session
          /\ q.intent = p.intent /\ q.near = p.near /\ q.event = TRUE
      BY <1>6 DEF Respects
    <2>2. FromEvent(q) >= FromEvent(p)
      BY <2>1 DEF FromEvent, Plus
    <2>3. /\ FromAdx(q) = FromAdx(p) /\ FromRsi(q) = FromRsi(p) /\ FromTypes(q) = FromTypes(p)
          /\ FromSession(q) = FromSession(p) /\ FromIntent(q) = FromIntent(p) /\ FromHist(q) = FromHist(p)
          /\ FromConflict(q) = FromConflict(p) /\ FromNear(q) = FromNear(p)
      BY <2>1 DEF FromAdx, FromRsi, FromTypes, FromSession, FromIntent, FromConflict, Conflict,
                  FromHist, FromNear
    <2> QED BY <2>2, <2>3, PointsAreNatural DEF Doubtful
  <1>7. ASSUME NEW q, q = [p EXCEPT !.types = <<"bullish", "bearish">>], p.types = <<"bullish">>
        PROVE  Doubtful(q, p)
    <2>1. /\ q.adx = p.adx /\ q.rsi = p.rsi /\ q.hist = p.hist /\ q.types = <<"bullish", "bearish">>
          /\ q.session = p.session /\ q.intent = p.intent /\ q.near = p.near /\ q.event = p.event
      BY <1>7 DEF Respects
    <2>2. FromTypes(q) >= FromTypes(p)
      <3>1. p.types # <<>>
        BY <1>7
      <3>2. {"bullish", "bearish"} \subseteq ToSet(q.types)
        <4>1. q.types[1] = "bullish" /\ q.types[2] = "bearish" /\ DOMAIN q.types = 1 .. 2
          BY <2>1
        <4> QED BY <4>1 DEF ToSet
      <3>3. FromTypes(q) >= 40
        BY <3>2, PlusIs DEF FromTypes, Plus
      <3>4. FromTypes(p) <= 40
        BY <3>1 DEF FromTypes, Plus
      <3> QED BY <3>3, <3>4, PointsAreNatural
    <2>3. FromConflict(q) = FromConflict(p)
      <3>1. Head(q.types) = "bullish" /\ Head(p.types) = "bullish" /\ p.types # <<>> /\ q.types # <<>>
        BY <1>7, <2>1
      <3>2. Conflict(q) <=> Conflict(p)
        BY <2>1, <3>1 DEF Conflict
      <3> QED BY <3>2 DEF FromConflict, Plus
    <2>4. /\ FromAdx(q) = FromAdx(p) /\ FromRsi(q) = FromRsi(p)
          /\ FromSession(q) = FromSession(p) /\ FromIntent(q) = FromIntent(p) /\ FromHist(q) = FromHist(p)
          /\ FromNear(q) = FromNear(p) /\ FromEvent(q) = FromEvent(p)
      BY <2>1 DEF FromAdx, FromRsi, FromSession, FromIntent, FromHist, FromNear, FromEvent
    <2> QED BY <2>2, <2>3, <2>4, PointsAreNatural DEF Doubtful
  <1>8. ASSUME NEW q, q = [p EXCEPT !.session = "weekend"], p.session = "unknown"
        PROVE  Doubtful(q, p)
    <2>1. /\ q.adx = p.adx /\ q.rsi = p.rsi /\ q.hist = p.hist /\ q.types = p.types
          /\ q.session = "weekend" /\ q.intent = p.intent /\ q.near = p.near /\ q.event = p.event
      BY <1>8 DEF Respects
    <2>2. FromSession(p) = 0
      BY <1>8 DEF FromSession, Plus
    <2>3. /\ FromAdx(q) = FromAdx(p) /\ FromRsi(q) = FromRsi(p) /\ FromTypes(q) = FromTypes(p)
          /\ FromIntent(q) = FromIntent(p) /\ FromHist(q) = FromHist(p)
          /\ FromConflict(q) = FromConflict(p) /\ FromNear(q) = FromNear(p) /\ FromEvent(q) = FromEvent(p)
      BY <2>1 DEF FromAdx, FromRsi, FromTypes, FromIntent, FromConflict, Conflict,
                  FromHist, FromNear, FromEvent
    <2> QED BY <2>2, <2>3, PointsAreNatural DEF Doubtful
  <1>9. ASSUME NEW q \in Worse(p) PROVE Doubtful(q, p)
    <2>1. \/ \E a \in {-1, 15, 30} : q = [p EXCEPT !.adx = a]
          \/ \E r \in {50, -1} : q = [p EXCEPT !.rsi = r]
          \/ q = [p EXCEPT !.hist = -1] \/ q = [p EXCEPT !.near = TRUE] \/ q = [p EXCEPT !.event = TRUE]
          \/ p.types = <<"bullish">> /\ q = [p EXCEPT !.types = <<"bullish", "bearish">>]
          \/ p.session = "unknown" /\ q = [p EXCEPT !.session = "weekend"]
      BY DEF Worse
    <2> QED BY <2>1, <1>2, <1>3, <1>4, <1>5, <1>6, <1>7, <1>8
  <1> QED BY <1>1, <1>9

\* A doubt that was assessed is that of the evidence looked at.
DoubtInv ==
  /\ "adx" \in DOMAIN view => Respects \subseteq DOMAIN view
  /\ context.kind = "doubt" => "adx" \in DOMAIN view /\ context.read = AssessDoubt(view)

LEMMA DoubtsHelpNobody == ContextSpec => []DoubtNeverHelps
  <1>1. ContextInit => DoubtInv
    BY ContextAssumption DEF ContextInit, ContextStart, Blank, DoubtInv, Respects, MarketView
  <1>2. DoubtInv /\ [ContextNext]_contextVars => DoubtInv'
    <2> SUFFICES ASSUME DoubtInv, [ContextNext]_contextVars PROVE DoubtInv'
      OBVIOUS
    <2>1. CASE Analyze
      <3>1. context'.kind = "liquidity" /\ view' = view
        BY <2>1 DEF Analyze
      <3> QED BY <3>1 DEF DoubtInv
    <2>2. CASE AssessUncertainty
      <3>1. context'.kind = "doubt" /\ context'.read = AssessDoubt(view) /\ view' = view /\ "adx" \in DOMAIN view
        BY <2>2 DEF AssessUncertainty
      <3>2. AssessDoubt(view)' = AssessDoubt(view)
        BY <3>1 DEF AssessDoubt, Technical, Behavioral, Conflict
      <3> QED BY <3>1, <3>2 DEF DoubtInv
    <2>3. CASE UNCHANGED contextVars
      <3>1. AssessDoubt(view)' = AssessDoubt(view)
        BY <2>3 DEF contextVars, AssessDoubt, Technical, Behavioral, Conflict
      <3> QED BY <2>3, <3>1 DEF contextVars, DoubtInv
    <2> QED BY <2>1, <2>2, <2>3 DEF ContextNext
  <1>3. DoubtInv => DoubtNeverHelps
    <2> SUFFICES ASSUME DoubtInv, context.kind = "doubt" PROVE DoubtNeverHelps
      BY DEF DoubtNeverHelps
    <2>1. Respects \subseteq DOMAIN view /\ context.read = AssessDoubt(view)
      BY DEF DoubtInv
    <2>2. Doubtful(view, view) /\ \A e \in Worse(view) : Doubtful(e, view)
      BY <2>1, WorseIsMore
    <2>3. view.adx < 40 => AssessDoubt(view).high
      BY <2>2, DoubtCosts
    <2>4. \A e \in Worse(view) : /\ AssessDoubt(e).adjust <= AssessDoubt(view).adjust
                                 /\ AssessDoubt(view).high => AssessDoubt(e).high
      BY <2>2, DoubtCosts
    <2> QED BY <2>1, <2>3, <2>4 DEF DoubtNeverHelps
  <1> QED BY <1>1, <1>2, <1>3, PTL DEF ContextSpec

\* Induction, as a fact about sets.
LEMMA EveryNumber ==
  ASSUME NEW S, 0 \in S, \A n \in Nat : n \in S => n + 1 \in S
  PROVE  Nat \subseteq S
  <1> DEFINE T == {n \in Nat : n \notin S}
  <1>1. ASSUME T # {} PROVE FALSE
    <2>1. T \in SUBSET Nat
      OBVIOUS
    <2> HIDE DEF T
    <2>2. PICK n \in T : \A m \in T : n <= m
      BY <1>1, <2>1, LeastNumber
    <2>3. n \in Nat /\ n \notin S
      BY DEF T
    <2>4. n # 0
      BY <2>3
    <2>5. n - 1 \in Nat /\ n - 1 \notin T
      BY <2>2, <2>3, <2>4, <2>1
    <2>6. n - 1 \in S
      BY <2>5 DEF T
    <2>7. (n - 1) + 1 = n
      BY <2>3
    <2> QED BY <2>3, <2>5, <2>6, <2>7
  <1> QED BY <1>1

\* Every sum over a sequence can be formed, term by term.
LEMMA SumsExist ==
  ASSUME NEW n \in Nat, NEW w, \A i \in 1 .. n : w[i] \in Nat
  PROVE  \E f : /\ f = [i \in 0 .. n |-> IF i = 0 THEN 0 ELSE f[i - 1] + w[i]]
                /\ \A i \in 0 .. n : f[i] \in Nat
  <1> DEFINE SumUpTo(f, k) == /\ f = [i \in 0 .. k |-> IF i = 0 THEN 0 ELSE f[i - 1] + w[i]]
                          /\ \A i \in 0 .. k : f[i] \in Nat
             S == {k \in Nat : k <= n => \E f : SumUpTo(f, k)}
  <1>1. 0 \in S
    <2> DEFINE f == [i \in 0 .. 0 |-> 0]
    <2>1. SumUpTo(f, 0)
      OBVIOUS
    <2> QED BY <2>1
  <1>2. ASSUME NEW k \in Nat, k \in S PROVE k + 1 \in S
    <2> SUFFICES ASSUME k + 1 <= n PROVE \E g : SumUpTo(g, k + 1)
      OBVIOUS
    <2>1. PICK f : SumUpTo(f, k)
      BY <1>2
    <2>2. w[k + 1] \in Nat /\ f[k] \in Nat
      BY <2>1
    <2> DEFINE g == [i \in 0 .. k + 1 |-> IF i = k + 1 THEN f[k] + w[k + 1] ELSE f[i]]
    <2>3. \A i \in 0 .. k + 1 : g[i] = IF i = 0 THEN 0 ELSE g[i - 1] + w[i]
      <3> TAKE i \in 0 .. k + 1
      <3>1. CASE i = 0
        <4>1. f[0] = 0
          BY <2>1
        <4> QED BY <3>1, <4>1
      <3>2. CASE i = k + 1
        <4>1. g[i] = f[k] + w[k + 1] /\ i - 1 = k /\ g[k] = f[k]
          BY <3>2
        <4> QED BY <3>2, <4>1
      <3>3. CASE i # 0 /\ i # k + 1
        <4>1. i \in 0 .. k /\ i - 1 \in 0 .. k /\ i - 1 # k + 1
          BY <3>3
        <4>2. f[i] = f[i - 1] + w[i]
          BY <2>1, <3>3, <4>1
        <4> QED BY <3>3, <4>1, <4>2
      <3> QED BY <3>1, <3>2, <3>3
    <2>4. \A i \in 0 .. k + 1 : g[i] \in Nat
      BY <2>1, <2>2
    <2>5. g = [i \in 0 .. k + 1 |-> g[i]]
      OBVIOUS
    <2> HIDE DEF g
    <2>6. g = [i \in 0 .. k + 1 |-> IF i = 0 THEN 0 ELSE g[i - 1] + w[i]]
      BY <2>3, <2>5
    <2> QED BY <2>4, <2>6
  <1> HIDE DEF SumUpTo
  <1>3. n \in S
    <2> HIDE DEF S
    <2>1. Nat \subseteq S
      BY <1>1, <1>2, EveryNumber
    <2> QED BY <2>1
  <1>4. \E f : SumUpTo(f, n)
    BY <1>3
  <1> QED BY <1>4 DEF SumUpTo

Weighty(es) == Len(es) \in Nat /\ \A i \in 1 .. Len(es) : es[i].weight \in Nat

\* The weights of any evidence add up to a number: by induction on its length,
\* for the partial sums that define EvidenceWeight exist, and are numbers.
LEMMA WeightsAreNatural ==
  ASSUME NEW es, Weighty(es), NEW side
  PROVE  EvidenceWeight(es, side) \in Nat
  <1> DEFINE n == Len(es)
             w == [i \in 1 .. n |-> IF es[i].for = side THEN es[i].weight ELSE 0]
             Is(f) == f = [i \in 0 .. Len(es) |->
                             IF i = 0 THEN 0 ELSE f[i - 1] + IF es[i].for = side THEN es[i].weight ELSE 0]
             g == CHOOSE f : Is(f)
  <1>1. n \in Nat /\ \A i \in 1 .. n : w[i] \in Nat
    BY DEF Weighty
  <1>2. PICK f : /\ f = [i \in 0 .. n |-> IF i = 0 THEN 0 ELSE f[i - 1] + w[i]]
                 /\ \A i \in 0 .. n : f[i] \in Nat
    <2> HIDE DEF w, n
    <2> QED BY <1>1, SumsExist
  <1>3. Is(f)
    <2>1. \A i \in 0 .. n : i # 0 => w[i] = IF es[i].for = side THEN es[i].weight ELSE 0
      BY <1>1
    <2> HIDE DEF w
    <2>2. \A i \in 0 .. n : (IF i = 0 THEN 0 ELSE f[i - 1] + w[i])
                            = IF i = 0 THEN 0 ELSE f[i - 1] + IF es[i].for = side THEN es[i].weight ELSE 0
      BY <2>1
    <2> QED BY <1>2, <2>2
  <1>4. Is(g)
    <2> HIDE DEF Is
    <2> QED BY <1>3
  <1>5. EvidenceWeight(es, side) = g[Len(es)]
    BY DEF EvidenceWeight
  <1> HIDE DEF g
  <1>6. \A i \in 0 .. n : g[i] \in Nat
    <2>4. g[0] = 0 /\ \A i \in 0 .. n : i # 0 => g[i] = g[i - 1] + w[i]
      <3>1. \A i \in 0 .. n : g[i] = IF i = 0 THEN 0
                                     ELSE g[i - 1] + IF es[i].for = side THEN es[i].weight ELSE 0
        BY <1>1, <1>4
      <3>2. \A i \in 0 .. n : i # 0 => w[i] = IF es[i].for = side THEN es[i].weight ELSE 0
        BY <1>1
      <3> HIDE DEF w
      <3>3. 0 \in 0 .. n
        BY <1>1
      <3> QED BY <3>1, <3>2, <3>3
    <2> DEFINE S == {k \in Nat : k <= n => g[k] \in Nat}
    <2>1. 0 \in S
      BY <2>4
    <2>2. ASSUME NEW k \in Nat, k \in S PROVE k + 1 \in S
      <3> SUFFICES ASSUME k + 1 <= n PROVE g[k + 1] \in Nat
        OBVIOUS
      <3>1. g[k] \in Nat
        BY <1>1, <2>2
      <3>2. g[k + 1] = g[(k + 1) - 1] + w[k + 1]
        <4>1. k + 1 \in 0 .. n /\ k + 1 # 0
          BY <1>1
        <4> QED BY <2>4, <4>1
      <3>3. (k + 1) - 1 = k /\ w[k + 1] \in Nat
        BY <1>1
      <3> HIDE DEF w
      <3> QED BY <3>1, <3>2, <3>3
    <2> HIDE DEF S
    <2>3. Nat \subseteq S
      BY <2>1, <2>2, EveryNumber
    <2> QED BY <1>1, <2>3 DEF S
  <1> QED BY <1>1, <1>5, <1>6

Believed(b) == "confidence" \in DOMAIN b /\ b.confidence \in Int

LEMMA WeighedIsBelieved ==
  ASSUME NEW b, Believed(b), NEW e, e.weight \in Nat
  PROVE  Believed(Weighed(b, e))
  <1> DEFINE more == b.confidence + (e.weight * 5 * (10000 - b.confidence)) \div 1000
             less == b.confidence - 80 * e.weight
  <1>1. more \in Int /\ less \in Int
    <2>1. e.weight * 5 \in Int /\ 10000 - b.confidence \in Int
      BY DEF Believed
    <2>2. e.weight * 5 * (10000 - b.confidence) \in Int
      BY <2>1, Products
    <2>3. (e.weight * 5 * (10000 - b.confidence)) \div 1000 \in Int
      BY <2>2, Quotients
    <2> QED BY <2>3 DEF Believed
  <1>2. Weighed(b, e) = [b EXCEPT !.confidence = IF e.for THEN IF more > 9500 THEN 9500 ELSE more
                                                 ELSE IF less < 500 THEN 500 ELSE less]
    BY DEF Weighed
  <1> HIDE DEF more, less
  <1> QED BY <1>1, <1>2 DEF Believed

\* So does weighing it piece by piece: there is a confidence after each.
LEMMA WeighingIsBelieved ==
  ASSUME NEW b, Believed(b), NEW es, Weighty(es)
  PROVE  Believed(Weighing(b, es))
  <1> DEFINE n == Len(es)
             After(f, k) == f = [i \in 0 .. k |-> IF i = 0 THEN b ELSE Weighed(f[i - 1], es[i])]
             S == {k \in Nat : k <= n => \E f : After(f, k)}
             g == CHOOSE f : After(f, n)
  <1>1. n \in Nat /\ \A i \in 1 .. n : es[i].weight \in Nat
    BY DEF Weighty
  <1>2. 0 \in S
    <2> DEFINE f == [i \in 0 .. 0 |-> b]
    <2>1. After(f, 0)
      OBVIOUS
    <2> QED BY <2>1
  <1>3. ASSUME NEW k \in Nat, k \in S PROVE k + 1 \in S
    <2> HIDE DEF After
    <2> SUFFICES ASSUME k + 1 <= n PROVE \E f : After(f, k + 1)
      OBVIOUS
    <2>1. PICK f : After(f, k)
      BY <1>1, <1>3
    <2> USE DEF After
    <2> DEFINE h == [i \in 0 .. k + 1 |-> IF i = k + 1 THEN Weighed(f[k], es[k + 1]) ELSE f[i]]
    <2>3. \A i \in 0 .. k + 1 : h[i] = IF i = 0 THEN b ELSE Weighed(h[i - 1], es[i])
      <3> TAKE i \in 0 .. k + 1
      <3>1. CASE i = 0
        <4>1. f[0] = b
          BY <2>1
        <4> QED BY <3>1, <4>1
      <3>2. CASE i = k + 1
        <4>1. h[i] = Weighed(f[k], es[k + 1]) /\ i - 1 = k /\ h[k] = f[k]
          BY <3>2
        <4> QED BY <3>2, <4>1
      <3>3. CASE i # 0 /\ i # k + 1
        <4>1. i \in 0 .. k /\ i - 1 \in 0 .. k /\ i - 1 # k + 1
          BY <3>3
        <4>2. f[i] = Weighed(f[i - 1], es[i])
          BY <2>1, <3>3, <4>1
        <4> QED BY <3>3, <4>1, <4>2
      <3> QED BY <3>1, <3>2, <3>3
    <2>5. h = [i \in 0 .. k + 1 |-> h[i]]
      OBVIOUS
    <2> HIDE DEF h
    <2>6. h = [i \in 0 .. k + 1 |-> IF i = 0 THEN b ELSE Weighed(h[i - 1], es[i])]
      BY <2>3, <2>5
    <2> QED BY <2>6
  <1>4. \E f : After(f, n)
    <2> HIDE DEF After
    <2>1. n \in S
      <3> HIDE DEF S
      <3>1. Nat \subseteq S
        BY <1>2, <1>3, EveryNumber
      <3> QED BY <1>1, <3>1
    <2> QED BY <1>1, <2>1
  <1>5. After(g, n)
    BY <1>4
  <1>6. Weighing(b, es) = g[n]
    BY DEF Weighing
  <1> HIDE DEF g
  <1>7. g[0] = b /\ \A k \in 0 .. n : k # 0 => g[k] = Weighed(g[k - 1], es[k])
    BY <1>1, <1>5
  <1> DEFINE T == {k \in Nat : k <= n => Believed(g[k])}
  <1>8. 0 \in T
    BY <1>7
  <1>9. ASSUME NEW k \in Nat, k \in T PROVE k + 1 \in T
    <2> SUFFICES ASSUME k + 1 <= n PROVE Believed(g[k + 1])
      OBVIOUS
    <2>1. Believed(g[k])
      BY <1>1, <1>9
    <2>2. g[k + 1] = Weighed(g[k], es[k + 1])
      <3>1. k + 1 \in 0 .. n /\ k + 1 # 0 /\ (k + 1) - 1 = k
        BY <1>1
      <3> QED BY <1>7, <3>1
    <2>3. es[k + 1].weight \in Nat
      BY <1>1
    <2> QED BY <2>1, <2>2, <2>3, WeighedIsBelieved
  <1>10. n \in T
    <2> HIDE DEF T
    <2>1. Nat \subseteq T
      BY <1>8, <1>9, EveryNumber
    <2> QED BY <1>1, <2>1
  <1> QED BY <1>1, <1>6, <1>10

LEMMA FirstIsNumber ==
  ASSUME NEW es, Weighty(es)
  PROVE  FirstConfidence(es) \in Int
  <1> DEFINE yes == EvidenceWeight(es, TRUE)
             no == EvidenceWeight(es, FALSE)
             many == Cardinality({es[i].source : i \in Favouring(es)}) >= 3
             c == 3000 + (4000 * yes) \div (yes + no) + IF many THEN 1000 ELSE 0
  <1>1. yes \in Nat /\ no \in Nat
    BY WeightsAreNatural
  <1>2. FirstConfidence(es) = IF yes + no = 0 THEN 3000 ELSE IF c > 8000 THEN 8000 ELSE c
    BY DEF FirstConfidence
  <1> HIDE DEF yes, no, many
  <1>3. CASE yes + no = 0
    BY <1>2, <1>3
  <1>4. CASE yes + no # 0
    <2>1. (4000 * yes) \div (yes + no) \in Int
      <3>1. yes + no > 0 /\ yes + no \in Int /\ 4000 * yes \in Int
        BY <1>1, <1>4
      <3> QED BY <3>1, Quotients
    <2>2. c \in Int
      BY <2>1
    <2> HIDE DEF c
    <2> QED BY <1>2, <1>4, <2>2
  <1> QED BY <1>3, <1>4

\* Pieces of evidence, saying one of some words.
Said(words) == [for : BOOLEAN, weight : Nat, source : {"technical", "regime", "fundamental"}, says : words]

LEMMA PieceIs ==
  ASSUME NEW words, NEW holds, NEW for \in BOOLEAN, NEW weight \in Nat,
         NEW source \in {"technical", "regime", "fundamental"}, NEW says \in words
  PROVE  Piece(holds, for, weight, source, says) \in Seq(Said(words))
  <1> DEFINE piece == [for |-> for, weight |-> weight, source |-> source, says |-> says]
  <1>1. piece \in Said(words)
    BY DEF Said
  <1>2. Piece(holds, for, weight, source, says) = IF holds THEN <<piece>> ELSE <<>>
    BY DEF Piece
  <1> HIDE DEF piece
  <1> QED BY <1>1, <1>2

LEMMA SaidIsWeighty ==
  ASSUME NEW words, NEW es \in Seq(Said(words))
  PROVE  Weighty(es)
  <1>1. Len(es) \in Nat /\ \A i \in 1 .. Len(es) : es[i] \in Said(words)
    OBVIOUS
  <1>2. \A e \in Said(words) : e.weight \in Nat
    BY DEF Said
  <1> QED BY <1>1, <1>2 DEF Weighty

LEMMA Joined ==
  ASSUME NEW S, NEW a \in Seq(S), NEW b \in Seq(S)
  PROVE  a \o b \in Seq(S)
  OBVIOUS

\* The evidence of a change, and of a first look, has weights to be added.
LEMMA DeltaIsWeighty ==
  ASSUME NEW own
  PROVE  Weighty(DeltaEvidence(own))
  <1> DEFINE none == ""
             words == {own, world.bias, world.direction, none}
             trending == "regime" \in Changed /\ world.regime = "trending"
             Word(k, is, yes, no) ==
               Piece(k \in Changed /\ is = own, TRUE, yes, "technical", is)
                 \o Piece(k \in Changed /\ is \notin {own, "neutral"}, FALSE, no, "technical", is)
             a == Piece(trending /\ own = "bullish", TRUE, 15, "regime", none)
             b == Piece(trending /\ own = "bearish", world.direction = "bearish", 10, "regime", none)
             c == Word("bias", world.bias, 12, 15)
             d == Word("direction", world.direction, 10, 18)
  <1>1. DeltaEvidence(own) = a \o b \o c \o d
    BY DEF DeltaEvidence
  <1> HIDE DEF none
  <1>2. a \in Seq(Said(words)) /\ b \in Seq(Said(words))
    <2>1. (world.direction = "bearish") \in BOOLEAN
      OBVIOUS
    <2> QED BY <2>1, PieceIs
  <1>3. ASSUME NEW k, NEW is \in words, NEW yes \in Nat, NEW no \in Nat
        PROVE  Word(k, is, yes, no) \in Seq(Said(words))
    <2>1. Piece(k \in Changed /\ is = own, TRUE, yes, "technical", is) \in Seq(Said(words))
      BY PieceIs
    <2>2. Piece(k \in Changed /\ is \notin {own, "neutral"}, FALSE, no, "technical", is) \in Seq(Said(words))
      BY PieceIs
    <2> HIDE DEF words
    <2> QED BY <2>1, <2>2, Joined
  <1>4. c \in Seq(Said(words)) /\ d \in Seq(Said(words))
    <2>1. world.bias \in words /\ world.direction \in words
      OBVIOUS
    <2> HIDE DEF words, Word
    <2> QED BY <1>3, <2>1
  <1> HIDE DEF words, a, b, c, d
  <1>5. a \o b \in Seq(Said(words))
    BY <1>2, Joined
  <1>6. a \o b \o c \in Seq(Said(words))
    BY <1>4, <1>5, Joined
  <1>7. a \o b \o c \o d \in Seq(Said(words))
    BY <1>4, <1>6, Joined
  <1> QED BY <1>1, <1>7, SaidIsWeighty

LEMMA InitialIsWeighty ==
  ASSUME NEW w, NEW own
  PROVE  Weighty(InitialEvidence(w, own))
  <1> DEFINE none == ""
             words == {own, w.bias, w.direction, w.mtf, none}
             rising == own = "bullish"
             falling == own = "bearish"
             Word(is, yes, no) ==
               Piece(is = own, TRUE, yes, "technical", is)
                 \o Piece(is \notin {own, "neutral"}, FALSE, no, "technical", is)
             a == Word(w.bias, 12, 10)
             strong == w.adx > 300
             room == \/ rising /\ 400 < w.rsi /\ w.rsi < 700
                     \/ falling /\ 300 < w.rsi /\ w.rsi < 600
             along == (rising /\ w.hist > 0) \/ (falling /\ w.hist < 0)
             b == Piece(strong, TRUE, 13, "technical", none)
             c == Piece(room, TRUE, 8, "technical", none)
             d == Piece(along, TRUE, 10, "technical", none)
             e == Piece(w.regime = "trending" /\ w.direction = own, TRUE, 15, "regime", own)
             f == Word(w.mtf, 15, 15)
             g == Piece((rising /\ w.rates = "EUR stronger") \/ (falling /\ w.rates = "USD stronger"),
                        TRUE, 13, "fundamental", own)
  <1>1. InitialEvidence(w, own) = a \o b \o c \o d \o e \o f \o g
    BY DEF InitialEvidence
  <1> HIDE DEF none
  <1>2. b \in Seq(Said(words)) /\ c \in Seq(Said(words)) /\ d \in Seq(Said(words))
    <2> HIDE DEF strong, room, along
    <2> QED BY PieceIs
  <1>3. e \in Seq(Said(words)) /\ g \in Seq(Said(words))
    BY PieceIs
  <1>4. ASSUME NEW is \in words, NEW yes \in Nat, NEW no \in Nat
        PROVE  Word(is, yes, no) \in Seq(Said(words))
    <2>1. Piece(is = own, TRUE, yes, "technical", is) \in Seq(Said(words))
      BY PieceIs
    <2>2. Piece(is \notin {own, "neutral"}, FALSE, no, "technical", is) \in Seq(Said(words))
      BY PieceIs
    <2> HIDE DEF words
    <2> QED BY <2>1, <2>2, Joined
  <1>5. a \in Seq(Said(words)) /\ f \in Seq(Said(words))
    <2>1. w.bias \in words /\ w.mtf \in words
      OBVIOUS
    <2> HIDE DEF words, Word
    <2> QED BY <1>4, <2>1
  <1> HIDE DEF words, a, b, c, d, e, f, g
  <1>6. a \o b \in Seq(Said(words))
    BY <1>2, <1>5, Joined
  <1>7. a \o b \o c \in Seq(Said(words))
    BY <1>2, <1>6, Joined
  <1>8. a \o b \o c \o d \in Seq(Said(words))
    BY <1>2, <1>7, Joined
  <1>9. a \o b \o c \o d \o e \in Seq(Said(words))
    BY <1>3, <1>8, Joined
  <1>10. a \o b \o c \o d \o e \o f \in Seq(Said(words))
    BY <1>5, <1>9, Joined
  <1>11. a \o b \o c \o d \o e \o f \o g \in Seq(Said(words))
    BY <1>3, <1>10, Joined
  <1> QED BY <1>1, <1>11, SaidIsWeighty

\* What the decisions read of the picture is there, and a thesis has a confidence.
Sensible(w) ==
  /\ {"spread", "soon", "session", "regime", "trades", "allowed", "price", "direction"} \subseteq DOMAIN w
  /\ w.spread \in Int /\ w.soon \in Int

Numeric(f) ==
  /\ "spread" \in DOMAIN f => f.spread \in Int
  /\ "soon" \in DOMAIN f => f.soon \in Int

PictureInv ==
  /\ Sensible(world) /\ Numeric(found)
  /\ belief # Nothing => Believed(belief)

\* A run of the pipeline replaces numbers by numbers only.
LEMMA SyncedIsSensible ==
  ASSUME NEW w, Sensible(w), NEW f, Numeric(f)
  PROVE  Sensible(Synced(w, f))
  <1> DEFINE passed == [k \in DOMAIN w |-> IF k \in DOMAIN f THEN f[k] ELSE w[k]]
             side == IF "verdict" \in DOMAIN f THEN Lowered[f.verdict] ELSE SignalWord(f)
  <1>1. Synced(w, f) = [passed EXCEPT !.direction = side]
    BY DEF Synced
  <1>2. passed = [k \in DOMAIN w |-> IF k \in DOMAIN f THEN f[k] ELSE w[k]]
    OBVIOUS
  <1> HIDE DEF passed, side
  <1>3. Synced(w, f).spread = passed.spread /\ Synced(w, f).soon = passed.soon
        /\ DOMAIN Synced(w, f) = DOMAIN w
    BY <1>1, <1>2
  <1>4. passed.spread \in Int /\ passed.soon \in Int
    BY <1>2 DEF Sensible, Numeric
  <1> QED BY <1>3, <1>4 DEF Sensible

LEMMA PictureStep == PictureInv /\ [WorldNext]_worldVars => PictureInv'
  <1> SUFFICES ASSUME PictureInv, [WorldNext]_worldVars PROVE PictureInv'
    OBVIOUS
  <1>1. ASSUME NEW r \in Reports, UpdateWorld(r) PROVE PictureInv'
    <2>1. /\ found' = [k \in DOMAIN r \cup DOMAIN found |-> IF k \in DOMAIN r THEN r[k] ELSE found[k]]
          /\ world' = Synced(world, found') /\ belief' = belief
      BY <1>1 DEF UpdateWorld
    <2>2. Numeric(r)
      BY WorldAssumption DEF Numeric
    <2>4. Numeric(found')
      BY <2>1, <2>2 DEF Numeric, PictureInv
    <2>5. Sensible(world')
      BY <2>1, <2>4, SyncedIsSensible DEF PictureInv
    <2> QED BY <2>1, <2>4, <2>5 DEF PictureInv, Sensible, Numeric
  <1>2. ASSUME NEW n \in Listed, ListOpenTrades(n) PROVE PictureInv'
    <2>1. found' = found /\ belief' = belief
          /\ world' = IF n = 0 THEN world ELSE [world EXCEPT !.trades = n]
      BY <1>2 DEF ListOpenTrades
    <2>2. Sensible([world EXCEPT !.trades = n])
      BY DEF PictureInv, Sensible
    <2> QED BY <2>1, <2>2 DEF PictureInv, Sensible, Numeric
  <1>3. ASSUME NEW t \in WorldTicks, ScanPrice(t) PROVE PictureInv'
    <2>1. found' = found /\ belief' = belief
          /\ world' = [world EXCEPT !.price = t.price, !.spread = t.spread]
      BY <1>3 DEF ScanPrice
    <2>2. t.spread \in Int
      BY WorldAssumption
    <2>3. Sensible([world EXCEPT !.price = t.price, !.spread = t.spread])
      BY <2>2 DEF PictureInv, Sensible
    <2> QED BY <2>1, <2>3 DEF PictureInv, Sensible, Numeric
  <1>4. ASSUME NEW graceful \in BOOLEAN, RestartAgent(graceful) PROVE PictureInv'
    <2>1. /\ found' = << >> /\ (world' = world \/ world' = BlankWorld)
          /\ (belief' = belief \/ belief' = Nothing)
      BY <1>4 DEF RestartAgent
    <2>2. Sensible(BlankWorld)
      BY DEF BlankWorld, Sensible
    <2>3. Numeric(<< >>)
      BY DEF Numeric
    <2> QED BY <2>1, <2>2, <2>3 DEF PictureInv, Sensible, Numeric
  <1>5. CASE TellWorld \/ NothingToReview \/ ThesisEnds \/ UNCHANGED worldVars
    <2>1. world' = world /\ found' = found /\ (belief' = belief \/ belief' = Nothing)
      BY <1>5 DEF TellWorld, NothingToReview, ThesisEnds, worldVars
    <2> QED BY <2>1 DEF PictureInv, Sensible, Numeric
  <1>6. CASE Review
    <2>1. world' = world /\ found' = found
      BY <1>6 DEF Review
    <2>2. AfterDelta = Nothing \/ Believed(AfterDelta)
      BY DeltaIsWeighty, WeighingIsBelieved DEF AfterDelta, PictureInv
    <2>3. ASSUME NEW own PROVE Forming(AfterDelta, own) = Nothing \/ Believed(Forming(AfterDelta, own))
      <3> DEFINE es == InitialEvidence(world, own)
      <3>1. Weighty(es)
        BY InitialIsWeighty
      <3>2. Believed(Thesis(own, es))
        <4> HIDE DEF es
        <4> QED BY <3>1, FirstIsNumber DEF Thesis, Believed
      <3>3. AfterDelta # Nothing => Believed(Weighing(AfterDelta, es))
        BY <2>2, <3>1, WeighingIsBelieved
      <3> QED BY <2>2, <3>2, <3>3 DEF Forming
    <2>4. belief' = AfterDelta \/ \E own : belief' = Forming(AfterDelta, own)
      BY <1>6 DEF Review
    <2>5. belief' = Nothing \/ Believed(belief')
      BY <2>2, <2>3, <2>4
    <2> QED BY <2>1, <2>5 DEF PictureInv, Sensible, Numeric, Believed
  <1> QED BY <1>1, <1>2, <1>3, <1>4, <1>5, <1>6 DEF WorldNext

\* The bar is no lower in a graver picture, except that the overlap's low bar is
\* below what a decision asks for anyway.
LEMMA AsideIfBelieved == PictureInv => StandsAside
  <1> SUFFICES ASSUME PictureInv, belief # Nothing, NEW v \in Graver(world), Proposes(v, belief)
               PROVE  Proposes(world, belief)
    BY DEF StandsAside
  <1> DEFINE w == world
             b == belief
  <1>1. Sensible(w) /\ b.confidence \in Int /\ KillSpread \in Int
    BY WorldAssumption DEF PictureInv, Believed
  <1>2. /\ v.trades = 0 /\ v.spread <= KillSpread /\ b.confidence >= Bar(v) /\ Liquid(v)
        /\ b.confidence >= 5500 /\ v.allowed /\ v.soon >= 15
    BY DEF Proposes, ShouldTrade
  <1> HIDE DEF w, b
  <1>3. SUFFICES /\ w.trades = 0 /\ w.spread <= KillSpread /\ b.confidence >= Bar(w) /\ Liquid(w)
                 /\ w.allowed /\ w.soon >= 15
    BY <1>2, <1>3 DEF Proposes, ShouldTrade, w, b
  <1>4. CASE v = [w EXCEPT !.spread = @ + 50]
    <2>1. /\ v.spread = w.spread + 50 /\ v.trades = w.trades /\ v.allowed = w.allowed
          /\ v.soon = w.soon /\ v.session = w.session /\ v.regime = w.regime
      BY <1>1, <1>4 DEF Sensible
    <2>2. Bar(v) = Bar(w) /\ (Liquid(v) <=> Liquid(w))
      BY <2>1 DEF Bar, Liquid
    <2>3. w.spread <= KillSpread
      BY <1>1, <1>2, <2>1 DEF Sensible
    <2> QED BY <1>2, <2>1, <2>2, <2>3
  <1>5. CASE v = [w EXCEPT !.soon = IF @ > 20 THEN 20 ELSE 10]
    <2>1. /\ v.soon = IF w.soon > 20 THEN 20 ELSE 10
          /\ v.trades = w.trades /\ v.allowed = w.allowed
          /\ v.spread = w.spread /\ v.session = w.session /\ v.regime = w.regime
      BY <1>1, <1>5 DEF Sensible
    <2>2. w.soon > 20
      BY <1>2, <2>1
    <2>3. b.confidence >= Bar(w)
      BY <1>1, <1>2, <2>1, <2>2 DEF Bar
    <2>4. Liquid(w)
      BY <1>2, <2>1 DEF Liquid
    <2> QED BY <1>1, <1>2, <2>1, <2>2, <2>3, <2>4 DEF Sensible
  <1>6. CASE v = [w EXCEPT !.session = IF @ = "overlap" THEN "london" ELSE "asian"]
    <2>1. /\ v.session = IF w.session = "overlap" THEN "london" ELSE "asian"
          /\ v.trades = w.trades /\ v.allowed = w.allowed
          /\ v.spread = w.spread /\ v.soon = w.soon /\ v.regime = w.regime
      BY <1>1, <1>6 DEF Sensible
    <2>2. w.session = "overlap"
      BY <1>2, <2>1 DEF Liquid
    <2> QED BY <1>1, <1>2, <2>1, <2>2 DEF Bar, Liquid
  <1>7. CASE v = [w EXCEPT !.regime = "volatile"]
    <2>1. /\ v.regime = "volatile" /\ v.trades = w.trades /\ v.allowed = w.allowed
          /\ v.spread = w.spread /\ v.soon = w.soon /\ v.session = w.session
      BY <1>1, <1>7 DEF Sensible
    <2>2. b.confidence >= Bar(w)
      BY <1>1, <1>2, <2>1 DEF Bar
    <2>3. Liquid(w)
      BY <1>2, <2>1 DEF Liquid
    <2> QED BY <1>2, <2>1, <2>2, <2>3
  <1>8. CASE v = [w EXCEPT !.trades = 1]
    <2>1. v.trades = 1
      BY <1>1, <1>8 DEF Sensible
    <2> QED BY <1>2, <2>1
  <1>9. CASE v = [w EXCEPT !.allowed = FALSE]
    <2>1. v.allowed = FALSE
      BY <1>1, <1>9 DEF Sensible
    <2> QED BY <1>2, <2>1
  <1>10. \/ v = [w EXCEPT !.spread = @ + 50] \/ v = [w EXCEPT !.soon = IF @ > 20 THEN 20 ELSE 10]
         \/ v = [w EXCEPT !.session = IF @ = "overlap" THEN "london" ELSE "asian"]
         \/ v = [w EXCEPT !.regime = "volatile"] \/ v = [w EXCEPT !.trades = 1]
         \/ v = [w EXCEPT !.allowed = FALSE]
    BY DEF Graver, w
  <1> QED BY <1>4, <1>5, <1>6, <1>7, <1>8, <1>9, <1>10

\* The assessment of doubt is kept with the evidence it was made of, the one of a
\* trade is what the calls of the guardrail make of the proposal, and a thesis has
\* a number for its confidence whatever evidence was weighed: so no doubt, danger
\* or grave circumstance ever raises confidence or size, or makes the agent
\* propose a trade it otherwise would not.
THEOREM CautionIsKept == ContextSpec /\ SizingSpec /\ WorldSpec => []CautionKept
  <1>1. SizingInit => AssessedIs
    BY SizingBegins DEF SizingInit, SizingStart, AssessedIs
  <1>2. SizingSpec => []CautionNeverEnlarges
    BY <1>1, AssessedStep, CautionShrinks, PTL DEF SizingSpec
  <1>3. WorldInit => PictureInv
    <2>1. Sensible(BlankWorld)
      BY DEF BlankWorld, Sensible
    <2>2. Numeric(<< >>)
      BY DEF Numeric
    <2> QED BY <2>1, <2>2 DEF WorldInit, PictureInv
  <1>4. WorldSpec => []StandsAside
    BY <1>3, PictureStep, AsideIfBelieved, PTL DEF WorldSpec
  <1>5. DoubtNeverHelps /\ CautionNeverEnlarges /\ StandsAside => CautionKept
    BY DEF CautionKept
  <1> QED BY <1>2, <1>4, <1>5, DoubtsHelpNobody, PTL
-----------------------------------------------------------------------------
AgeOrNone == 0 .. AgeCap + 1
PriceSources == {"forexfeed", "biquote", "oanda", "tiingo", "yfinance", "alphavantage"}
CandleSources == DOMAIN MemTTL \cup {"biquote"}
Prices == [kind : {"live", "cached", "error"}, age : AgeOrNone, warned : BOOLEAN, still : 0 .. AgeCap]
Candles == [kind : CandleSources \cup {"stored", "error"}, age : AgeOrNone]
Stamped == [stamp : AgeOrNone, age : AgeOrNone]

MarketShape ==
  /\ still \in 0 .. AgeCap
  /\ known \in [Remembering -> AgeOrNone]
  /\ price \in [Askers -> [left : Seq(PriceSources), got : Prices]]
  /\ held \in [DOMAIN MemTTL -> Stamped]
  /\ store \in Stamped
  /\ bars \in [Readers -> [left : Seq(CandleSources), got : Candles]]

\* What a source keeps is as old as its stamp says; what the store keeps may be
\* older than its stamp by the lifetime of the cache it came from.
StampsTrue == \A s \in DOMAIN MemTTL : held[s].age = held[s].stamp
StoreBehind == store.age <= store.stamp + Longest

\* What PricesMarked says of one answer.
Marked(got) == got.kind = "live" => got.age <= got.still \/ (got.warned /\ got.age <= Delay)

MarketInv == MarketShape /\ PricesMarked /\ StampsTrue /\ StoreBehind /\ CandlesFresh

\* The longest lifetime is one, and none is longer.
LEMMA LongestLifetime ==
  /\ Longest \in Nat /\ Longest <= AgeCap
  /\ \A s \in DOMAIN MemTTL : MemTTL[s] \in Nat /\ MemTTL[s] <= Longest
  <1> DEFINE T == {MemTTL[s] : s \in DOMAIN MemTTL}
  <1>1. \A s \in DOMAIN MemTTL : MemTTL[s] \in Nat /\ MemTTL[s] <= AgeCap
    BY MarketAssumption DEF MarketAssumption
  <1>2. DOMAIN MemTTL = {"yfinance", "oanda", "tiingo", "alphavantage"}
    BY MarketAssumption DEF MarketAssumption
  <1>3. \E t \in T : \A s \in DOMAIN MemTTL : MemTTL[s] <= t
    <2> DEFINE a == MemTTL["yfinance"]
               b == MemTTL["oanda"]
               c == MemTTL["tiingo"]
               d == MemTTL["alphavantage"]
               ab == IF a >= b THEN a ELSE b
               cd == IF c >= d THEN c ELSE d
               top == IF ab >= cd THEN ab ELSE cd
    <2>1. a \in Nat /\ b \in Nat /\ c \in Nat /\ d \in Nat
      BY <1>1, <1>2
    <2>2. a \in T /\ b \in T /\ c \in T /\ d \in T
      BY <1>2
    <2>3. \A s \in DOMAIN MemTTL : MemTTL[s] \in {a, b, c, d}
      BY <1>2
    <2> HIDE DEF a, b, c, d, T
    <2>4. top \in T /\ a <= top /\ b <= top /\ c <= top /\ d <= top
      BY <2>1, <2>2
    <2> HIDE DEF top
    <2>5. \A x \in {a, b, c, d} : x <= top
      BY <2>4
    <2>6. \A s \in DOMAIN MemTTL : MemTTL[s] <= top
      BY <2>3, <2>5
    <2> QED BY <2>4, <2>6
  <1>4. Longest \in T /\ \A s \in DOMAIN MemTTL : MemTTL[s] <= Longest
    BY <1>3 DEF Longest
  <1> QED BY <1>1, <1>4

LEMMA Chains == CandleChain \in Seq(CandleSources) /\ PriceChain \in Seq(PriceSources)
  <1>1. DOMAIN MemTTL = {"yfinance", "oanda", "tiingo", "alphavantage"}
    BY MarketAssumption DEF MarketAssumption
  <1>2. {"yfinance", "oanda", "tiingo", "alphavantage", "biquote"} \subseteq CandleSources
    BY <1>1 DEF CandleSources
  <1>3. ASSUME NEW S, NEW s \in S PROVE Keyed(s) \in Seq(S) /\ <<s>> \in Seq(S)
    BY DEF Keyed
  <1>4. ASSUME NEW S, NEW x \in Seq(S), NEW y \in Seq(S) PROVE x \o y \in Seq(S)
    OBVIOUS
  <1>5. CandleChain \in Seq(CandleSources)
    <2> DEFINE x == <<"yfinance">> \o Keyed("oanda")
               y == x \o Keyed("tiingo")
               z == y \o <<"biquote">>
    <2>1. x \in Seq(CandleSources)
      BY <1>2, <1>3, <1>4
    <2> HIDE DEF x
    <2>2. y \in Seq(CandleSources)
      BY <1>2, <1>3, <1>4, <2>1
    <2> HIDE DEF y
    <2>3. z \in Seq(CandleSources)
      BY <1>2, <1>3, <1>4, <2>2
    <2> HIDE DEF z
    <2>4. z \o Keyed("alphavantage") \in Seq(CandleSources)
      BY <1>2, <1>3, <1>4, <2>3
    <2> QED BY <2>4 DEF CandleChain, x, y, z
  <1>6. PriceChain \in Seq(PriceSources)
    <2> DEFINE x == <<"forexfeed", "biquote">> \o Keyed("oanda")
               y == x \o Keyed("tiingo")
               z == y \o <<"yfinance">>
    <2>0. "oanda" \in PriceSources /\ "tiingo" \in PriceSources /\ "yfinance" \in PriceSources
          /\ "alphavantage" \in PriceSources /\ <<"forexfeed", "biquote">> \in Seq(PriceSources)
      BY DEF PriceSources
    <2>1. x \in Seq(PriceSources)
      BY <1>3, <1>4, <2>0
    <2> HIDE DEF x
    <2>2. y \in Seq(PriceSources)
      BY <1>3, <1>4, <2>0, <2>1
    <2> HIDE DEF y
    <2>3. z \in Seq(PriceSources)
      BY <1>3, <1>4, <2>0, <2>2
    <2> HIDE DEF z
    <2>4. z \o Keyed("alphavantage") \in Seq(PriceSources)
      BY <1>3, <1>4, <2>0, <2>3
    <2> QED BY <2>4 DEF PriceChain, x, y, z
  <1> QED BY <1>5, <1>6

LEMMA Bounds ==
  /\ AgeCap \in Nat /\ StoreTTL \in Nat /\ StoreTTL <= AgeCap /\ None = AgeCap + 1
  /\ \A a \in AgeOrNone : Aged(a) \in AgeOrNone
  /\ \A a \in 0 .. AgeCap : Older(a) \in 0 .. AgeCap
  /\ Delay \in Nat /\ Delay <= AgeCap
  BY MarketAssumption DEF MarketAssumption, AgeOrNone, Aged, Older, None

LEMMA MarkedAll == PricesMarked <=> \A a \in Askers : Marked(price[a].got)
  BY DEF PricesMarked, Marked

\* What a source quotes is the market's last price, or late by the delay.
LEMMA AgeOfPrice ==
  ASSUME still \in 0 .. AgeCap, NEW s
  PROVE  /\ PriceAge(s) \in AgeOrNone /\ Delayed(s) \in BOOLEAN
         /\ PriceAge(s) <= still \/ (Delayed(s) /\ PriceAge(s) <= Delay)
  BY Bounds DEF PriceAge, Delayed, AgeOrNone

\* Answers, and that one not called live needs no mark.
LEMMA AnswersPriced ==
  ASSUME still \in 0 .. AgeCap, NEW kind \in {"live", "cached", "error"}, NEW age \in AgeOrNone,
         NEW warned \in BOOLEAN
  PROVE  /\ Answer(kind, age, warned) \in Prices
         /\ kind # "live" => Marked(Answer(kind, age, warned))
         /\ (age <= still \/ (warned /\ age <= Delay)) => Marked(Answer(kind, age, warned))
  <1>1. Answer(kind, age, warned) \in Prices
    BY DEF Answer, Prices
  <1>2. /\ Answer(kind, age, warned).kind = kind /\ Answer(kind, age, warned).age = age
        /\ Answer(kind, age, warned).warned = warned /\ Answer(kind, age, warned).still = still
    BY DEF Answer
  <1> QED BY <1>1, <1>2 DEF Marked

LEMMA NoPriceMarked ==
  ASSUME still \in 0 .. AgeCap
  PROVE  NoPrice \in Prices /\ Marked(NoPrice)
  <1>1. None \in AgeOrNone
    BY Bounds DEF AgeOrNone
  <1> QED BY <1>1, AnswersPriced DEF NoPrice

LEMMA RepeatedMarked ==
  ASSUME still \in 0 .. AgeCap, NEW s, known[s] \in AgeOrNone
  PROVE  Repeated(s) \in Prices /\ Marked(Repeated(s))
  BY AnswersPriced, AgeOfPrice DEF Repeated

LEMMA MarketStarts == MarketInit => MarketInv
  <1> SUFFICES ASSUME MarketInit PROVE MarketInv
    OBVIOUS
  <1>1. None \in AgeOrNone /\ 0 \in AgeOrNone
    BY Bounds DEF AgeOrNone
  <1>a. still \in 0 .. AgeCap
    BY Bounds DEF MarketInit
  <1>b. NoPrice \in Prices /\ Marked(NoPrice)
    BY <1>a, NoPriceMarked
  <1>2. MarketShape
    BY <1>1, <1>a, <1>b DEF MarketInit, MarketShape, NoBars, Stamped, Candles
  <1>3. PricesMarked /\ StampsTrue /\ CandlesFresh
    BY <1>b, MarkedAll DEF MarketInit, StampsTrue, CandlesFresh, NoBars
  <1>4. StoreBehind
    BY Bounds, LongestLifetime DEF MarketInit, StoreBehind
  <1> QED BY <1>2, <1>3, <1>4 DEF MarketInv

\* A caller asks for a price: an open breaker answers with a repeated one.
LEMMA AskPriceKeeps ==
  ASSUME MarketInv, NEW a \in Askers, AskPrice(a)
  PROVE  MarketInv'
  <1>1. price \in [Askers -> [left : Seq(PriceSources), got : Prices]]
        /\ known \in [Remembering -> AgeOrNone] /\ still \in 0 .. AgeCap
    BY DEF MarketInv, MarketShape
  <1>2. None \in AgeOrNone /\ known["biquote"] \in AgeOrNone
    BY <1>1, Bounds DEF AgeOrNone, Remembering
  <1>3. /\ price' \in [Askers -> [left : Seq(PriceSources), got : Prices]]
        /\ \A b \in Askers : price'[b].got = price[b].got \/ Marked(price'[b].got)
    <2> DEFINE repeated == IF known["biquote"] # None THEN Repeated("biquote") ELSE NoPrice
    <2>1. repeated \in Prices /\ Marked(repeated) /\ NoPrice \in Prices /\ Marked(NoPrice)
      BY <1>1, <1>2, NoPriceMarked, RepeatedMarked
    <2>2. \/ price' = [price EXCEPT ![a].got = repeated]
          \/ price' = [price EXCEPT ![a] = [left |-> PriceChain, got |-> NoPrice]]
      BY DEF AskPrice
    <2> HIDE DEF repeated
    <2>3. CASE price' = [price EXCEPT ![a].got = repeated]
      BY <1>1, <2>1, <2>3
    <2>4. CASE price' = [price EXCEPT ![a] = [left |-> PriceChain, got |-> NoPrice]]
      BY <1>1, <2>1, <2>4, Chains
    <2> QED BY <2>2, <2>3, <2>4
  <1>4. PricesMarked'
    <2>1. \A b \in Askers : Marked(price'[b].got)
      BY <1>3, MarkedAll DEF MarketInv
    <2> QED BY <2>1 DEF PricesMarked, Marked
  <1>5. UNCHANGED <<still, known, held, store, bars>>
    BY DEF AskPrice
  <1>6. MarketShape'
    BY <1>3, <1>5 DEF MarketInv, MarketShape
  <1>7. StampsTrue' /\ StoreBehind' /\ CandlesFresh'
    BY <1>5 DEF MarketInv, StampsTrue, StoreBehind, CandlesFresh
  <1> QED BY <1>4, <1>6, <1>7 DEF MarketInv

\* A source answers: live, as late as it is said to be, or marked.
LEMMA PriceAnswerKeeps ==
  ASSUME MarketInv, NEW a \in Askers, NEW how, PriceAnswer(a, how)
  PROVE  MarketInv'
  <1> DEFINE s == Head(price[a].left)
             answer == IF how = "live" THEN Answer("live", PriceAge(s), Delayed(s)) ELSE Failure(s, how)
  <1>1. price \in [Askers -> [left : Seq(PriceSources), got : Prices]]
        /\ known \in [Remembering -> AgeOrNone] /\ still \in 0 .. AgeCap
    BY DEF MarketInv, MarketShape
  <1>2. None \in AgeOrNone /\ 0 \in AgeOrNone
    BY Bounds DEF AgeOrNone
  <1>3. answer \in Prices /\ Marked(answer)
    <2>1. CASE how = "live"
      BY <1>1, <2>1, AgeOfPrice, AnswersPriced
    <2>2. CASE how # "live" /\ s \in Repeating
      <3>1. known[s] \in AgeOrNone
        BY <1>1, <2>2 DEF Repeating
      <3> QED BY <1>1, <2>2, <3>1, RepeatedMarked, NoPriceMarked DEF Failure
    <2>3. CASE how # "live" /\ s \notin Repeating
      BY <1>1, <2>3, NoPriceMarked DEF Failure
    <2> QED BY <2>1, <2>2, <2>3
  <1>4. known' \in [Remembering -> AgeOrNone]
    <2>1. PriceAge(s) \in AgeOrNone
      BY <1>1, AgeOfPrice
    <2> QED BY <1>1, <2>1 DEF PriceAnswer
  <1>5. /\ price[a].left # <<>>
        /\ \/ price' = [price EXCEPT ![a] = [left |-> <<>>, got |-> answer]]
           \/ price' = [price EXCEPT ![a].left = Tail(@)]
           \/ price' = [price EXCEPT ![a].left = <<>>]
        /\ UNCHANGED <<still, held, store, bars>>
    BY DEF PriceAnswer
  <1> HIDE DEF s, answer
  <1>6. /\ price' \in [Askers -> [left : Seq(PriceSources), got : Prices]]
        /\ \A b \in Askers : price'[b].got = price[b].got \/ price'[b].got = answer
    <2>1. Tail(price[a].left) \in Seq(PriceSources)
      BY <1>1, <1>5
    <2>2. CASE price' = [price EXCEPT ![a] = [left |-> <<>>, got |-> answer]]
      <3>1. <<>> \in Seq(PriceSources)
        OBVIOUS
      <3> QED BY <1>1, <1>3, <2>2, <3>1
    <2>3. CASE price' = [price EXCEPT ![a].left = Tail(@)]
      BY <1>1, <2>1, <2>3
    <2>4. CASE price' = [price EXCEPT ![a].left = <<>>]
      <3>1. <<>> \in Seq(PriceSources)
        OBVIOUS
      <3> QED BY <1>1, <2>4, <3>1
    <2> QED BY <1>5, <2>2, <2>3, <2>4
  <1>7. PricesMarked'
    <2>1. \A b \in Askers : Marked(price'[b].got)
      BY <1>3, <1>6, MarkedAll DEF MarketInv
    <2> QED BY <2>1 DEF PricesMarked, Marked
  <1>8. MarketShape'
    BY <1>4, <1>5, <1>6 DEF MarketInv, MarketShape
  <1>9. StampsTrue' /\ StoreBehind' /\ CandlesFresh'
    BY <1>5 DEF MarketInv, StampsTrue, StoreBehind, CandlesFresh
  <1> QED BY <1>7, <1>8, <1>9 DEF MarketInv

\* The store answers while it is fresh, with what may be older than its stamp.
LEMMA AskCandlesKeeps ==
  ASSUME MarketInv, NEW r \in Readers, NEW enough \in BOOLEAN, AskCandles(r, enough)
  PROVE  MarketInv'
  <1>1. bars \in [Readers -> [left : Seq(CandleSources), got : Candles]]
        /\ store \in Stamped /\ store.age <= store.stamp + Longest
    BY DEF MarketInv, MarketShape, StoreBehind
  <1>2. store.stamp \in Nat /\ store.age \in AgeOrNone /\ store.age \in Nat
    BY <1>1, Bounds DEF Stamped, AgeOrNone
  <1>3. None \in AgeOrNone
    BY Bounds DEF AgeOrNone
  <1>4. /\ bars' \in [Readers -> [left : Seq(CandleSources), got : Candles]]
        /\ \A b \in Readers : \/ bars'[b].got = bars[b].got \/ bars'[b].got.kind = "error"
                              \/ bars'[b].got.age <= StoreTTL + Longest
    <2>1. CASE StoredFresh /\ enough
      <3>0. StoreTTL \in Nat /\ Longest \in Nat /\ store.stamp <= StoreTTL
        BY <2>1, Bounds, LongestLifetime DEF StoredFresh
      <3>1. store.age <= StoreTTL + Longest
        BY <1>1, <1>2, <3>0
      <3> QED BY <1>1, <1>2, <2>1, <3>1 DEF AskCandles, Candles
    <2>2. CASE ~(StoredFresh /\ enough)
      BY <1>1, <1>3, <2>2, Chains DEF AskCandles, NoBars, Candles
    <2> QED BY <2>1, <2>2
  <1>5. CandlesFresh'
    BY <1>4 DEF MarketInv, CandlesFresh
  <1>6. UNCHANGED <<still, known, price, held, store>>
    BY DEF AskCandles
  <1>7. MarketShape'
    BY <1>4, <1>6 DEF MarketInv, MarketShape
  <1>8. PricesMarked' /\ StampsTrue' /\ StoreBehind'
    BY <1>6 DEF MarketInv, PricesMarked, StampsTrue, StoreBehind
  <1> QED BY <1>5, <1>7, <1>8 DEF MarketInv

\* Good candles: new ones, or what the source kept for less than its lifetime.
LEMMA GoodCandlesKeeps ==
  ASSUME MarketInv, NEW r \in Readers, GoodCandles(r)
  PROVE  MarketInv'
  <1> DEFINE s == Head(bars[r].left)
             live == s = "biquote" \/ held[s].stamp >= MemTTL[s]
  <1>1. /\ bars \in [Readers -> [left : Seq(CandleSources), got : Candles]]
        /\ store \in Stamped /\ held \in [DOMAIN MemTTL -> Stamped] /\ known \in [Remembering -> AgeOrNone]
        /\ still \in 0 .. AgeCap
    BY DEF MarketInv, MarketShape
  <1>2. None \in AgeOrNone /\ 0 \in AgeOrNone /\ still \in AgeOrNone
    BY <1>1, Bounds DEF AgeOrNone
  <1>3. s \in CandleSources
    BY <1>1 DEF GoodCandles
  <1>5. /\ held' = IF s = "biquote" THEN held ELSE [held EXCEPT ![s] = HeldAfter(s, live)]
        /\ store' = IF s = "biquote" THEN store ELSE [stamp |-> 0, age |-> held'[s].age]
        /\ bars' = [bars EXCEPT ![r] = [left |-> <<>>, got |->
             [kind |-> s, age |-> IF s = "biquote" THEN 0 ELSE held'[s].age]]]
        /\ known' = IF s = "biquote" THEN [known EXCEPT ![s] = still] ELSE known
        /\ UNCHANGED <<still, price>>
    BY DEF GoodCandles
  <1> HIDE DEF s
  <1>6. ASSUME s # "biquote"
        PROVE  /\ s \in DOMAIN MemTTL /\ HeldAfter(s, live) \in Stamped
               /\ HeldAfter(s, live).age = HeldAfter(s, live).stamp
               /\ HeldAfter(s, live).age <= Longest
    <2>1. s \in DOMAIN MemTTL
      BY <1>3, <1>6 DEF CandleSources
    <2>2. held[s] \in Stamped /\ held[s].age = held[s].stamp
      BY <1>1, <2>1 DEF MarketInv, StampsTrue
    <2>3. held[s].stamp \in Nat /\ held[s].age \in Nat
      BY <2>2, Bounds DEF Stamped, AgeOrNone
    <2>4. CASE live
      BY <1>2, <2>1, <2>4, LongestLifetime DEF HeldAfter, Stamped
    <2>5. CASE ~live
      <3>1. held[s].stamp < MemTTL[s]
        BY <2>1, <2>3, <2>5, LongestLifetime
      <3>2. held[s].age <= Longest
        BY <2>1, <2>2, <2>3, <3>1, LongestLifetime
      <3> QED BY <2>1, <2>2, <2>5, <3>2 DEF HeldAfter
    <2> QED BY <2>1, <2>4, <2>5
  <1>7. held' \in [DOMAIN MemTTL -> Stamped] /\ StampsTrue'
    <2>1. CASE s = "biquote"
      BY <1>1, <1>5, <2>1 DEF MarketInv, StampsTrue
    <2>2. CASE s # "biquote"
      BY <1>1, <1>5, <1>6, <2>2 DEF MarketInv, StampsTrue
    <2> QED BY <2>1, <2>2
  <1> DEFINE age == IF s = "biquote" THEN 0 ELSE held'[s].age
  <1>8. age \in AgeOrNone /\ age <= Longest
    <2>1. CASE s = "biquote"
      BY <1>2, <2>1, LongestLifetime
    <2>2. CASE s # "biquote"
      <3>1. held'[s] = HeldAfter(s, live)
        BY <1>1, <1>5, <1>6, <2>2
      <3> QED BY <1>6, <2>2, <3>1 DEF Stamped
    <2> QED BY <2>1, <2>2
  <1> HIDE DEF live
  <1>9. store' \in Stamped /\ StoreBehind'
    <2>1. CASE s = "biquote"
      BY <1>1, <1>5, <2>1 DEF MarketInv, StoreBehind
    <2>2. CASE s # "biquote"
      <3>1. store' = [stamp |-> 0, age |-> age]
        BY <1>5, <2>2
      <3> HIDE DEF age
      <3> QED BY <1>2, <1>8, <3>1, LongestLifetime DEF Stamped, StoreBehind
    <2> QED BY <2>1, <2>2
  <1>10. bars' = [bars EXCEPT ![r] = [left |-> <<>>, got |-> [kind |-> s, age |-> age]]]
    BY <1>5
  <1> HIDE DEF age
  <1>11. bars' \in [Readers -> [left : Seq(CandleSources), got : Candles]]
    BY <1>1, <1>3, <1>8, <1>10 DEF Candles
  <1>12. CandlesFresh'
    <2>1. age <= StoreTTL + Longest
      BY <1>8, Bounds, LongestLifetime DEF AgeOrNone
    <2> QED BY <1>1, <1>10, <2>1 DEF MarketInv, CandlesFresh
  <1>13. known' \in [Remembering -> AgeOrNone]
    BY <1>1, <1>2, <1>5
  <1>14. MarketShape' /\ PricesMarked'
    BY <1>5, <1>7, <1>9, <1>11, <1>13 DEF MarketInv, MarketShape, PricesMarked
  <1> QED BY <1>7, <1>9, <1>12, <1>14 DEF MarketInv

\* Refused candles stay in the source's own cache, new and truly stamped.
LEMMA BadCandlesKeeps ==
  ASSUME MarketInv, NEW r \in Readers, NEW refused \in BOOLEAN, BadCandles(r, refused)
  PROVE  MarketInv'
  <1> DEFINE s == Head(bars[r].left)
  <1>1. /\ bars \in [Readers -> [left : Seq(CandleSources), got : Candles]]
        /\ held \in [DOMAIN MemTTL -> Stamped]
    BY DEF MarketInv, MarketShape
  <1>2. 0 \in AgeOrNone
    BY Bounds DEF AgeOrNone
  <1>3. held' \in [DOMAIN MemTTL -> Stamped] /\ StampsTrue'
    <2>1. held' = held \/ held' = [held EXCEPT ![s] = [stamp |-> 0, age |-> 0]]
      BY DEF BadCandles
    <2> HIDE DEF s
    <2>2. CASE held' = held
      BY <1>1, <2>2 DEF MarketInv, StampsTrue
    <2>3. CASE held' = [held EXCEPT ![s] = [stamp |-> 0, age |-> 0]]
      BY <1>1, <1>2, <2>3 DEF MarketInv, StampsTrue, Stamped
    <2> QED BY <2>1, <2>2, <2>3
  <1>4. /\ bars[r].left # <<>> /\ bars' = [bars EXCEPT ![r].left = Tail(@)]
        /\ UNCHANGED <<still, known, price, store>>
    BY DEF BadCandles
  <1>5. Tail(bars[r].left) \in Seq(CandleSources)
    BY <1>1, <1>4
  <1>6. bars' \in [Readers -> [left : Seq(CandleSources), got : Candles]]
    BY <1>1, <1>4, <1>5
  <1>7. CandlesFresh'
    BY <1>1, <1>4 DEF MarketInv, CandlesFresh
  <1>8. MarketShape' /\ PricesMarked' /\ StoreBehind'
    BY <1>3, <1>4, <1>6 DEF MarketInv, MarketShape, PricesMarked, StoreBehind
  <1> QED BY <1>3, <1>7, <1>8 DEF MarketInv

\* A tick ages stamp and content alike, up to the bound on ages.
LEMMA TickKeeps ==
  ASSUME MarketInv, MarketTick
  PROVE  MarketInv'
  <1>1. /\ held \in [DOMAIN MemTTL -> Stamped] /\ store \in Stamped /\ known \in [Remembering -> AgeOrNone]
        /\ still \in 0 .. AgeCap
    BY DEF MarketInv, MarketShape
  <1>0. still' \in 0 .. AgeCap
    BY <1>1, Bounds DEF MarketTick
  <1>2. held' \in [DOMAIN MemTTL -> Stamped] /\ StampsTrue'
    BY <1>1, Bounds DEF MarketTick, MarketInv, StampsTrue, Stamped
  <1>3. known' \in [Remembering -> AgeOrNone]
    BY <1>1, Bounds DEF MarketTick
  <1>4. store' \in Stamped
    BY <1>1, Bounds DEF MarketTick, Stamped
  <1>5. StoreBehind'
    <2>1. store.stamp \in AgeOrNone /\ store.age \in AgeOrNone /\ store.age <= store.stamp + Longest
      BY <1>1 DEF Stamped, MarketInv, StoreBehind
    <2>2. Aged(store.age) <= Aged(store.stamp) + Longest
      BY <2>1, Bounds, LongestLifetime DEF AgeOrNone, Aged, Older
    <2> QED BY <2>2 DEF MarketTick, StoreBehind
  <1>6. UNCHANGED <<price, bars>>
    BY DEF MarketTick
  <1>7. MarketShape' /\ PricesMarked' /\ CandlesFresh'
    BY <1>0, <1>2, <1>3, <1>4, <1>6 DEF MarketInv, MarketShape, PricesMarked, CandlesFresh
  <1> QED BY <1>2, <1>5, <1>7 DEF MarketInv

LEMMA MarketStep == MarketInv /\ [MarketNext]_marketVars => MarketInv'
  <1> SUFFICES ASSUME MarketInv, [MarketNext]_marketVars PROVE MarketInv'
    OBVIOUS
  <1>1. CASE PriceNext
    BY <1>1, AskPriceKeeps, PriceAnswerKeeps DEF PriceNext
  <1>2. CASE CandleNext
    BY <1>2, AskCandlesKeeps, GoodCandlesKeeps, BadCandlesKeeps DEF CandleNext
  <1>3. CASE MarketTick
    BY <1>3, TickKeeps
  <1>4. CASE UNCHANGED marketVars
    BY <1>4 DEF marketVars, MarketInv, MarketShape, PricesMarked, StampsTrue, StoreBehind, CandlesFresh
  <1> QED BY <1>1, <1>2, <1>3, <1>4 DEF MarketNext

THEOREM MarketInvariant == MarketSpec => []MarketInv
  BY MarketStarts, MarketStep, PTL DEF MarketSpec

\* What the agent and its tools are given is what it is said to be: a price not
\* marked as cached is the market's of that moment, or its last where it stands
\* still, or late by no more than the delay it warns of, whatever failed before
\* it; and no candle outlives the two caches it went through
\* (multi_provider.py and the providers behind it).
THEOREM DataIsFresh == MarketSpec => []DataFresh
  <1>1. MarketInv => DataFresh
    BY DEF MarketInv, DataFresh
  <1> QED BY <1>1, MarketInvariant, PTL

-----------------------------------------------------------------------------
\* The alerts of the scheduler's analysis task.
Chats == Range(Recipients)
Texts == Messages \cup {NoMessage}
Rounds ==
  [at : {"idle", "deciding", "alerting", "sending", "signalling", "telling"}, message : Texts,
   signal : BOOLEAN, left : Seq(Chats)]

NoticesShape ==
  /\ now \in Nat /\ lastAlert \in Int /\ lastAlert <= now
  /\ round \in Rounds
  /\ heard \in [Chats -> [told : Int, turn : BOOLEAN]]
  /\ recorded \subseteq [chat : Chats, message : Texts, at : Int]

\* The engine knows of every arrival that was confirmed.
ToldKnown == \A c \in Chats : heard[c].told <= lastAlert

\* Whoever is still to be written to was last told an hour ago, or the cache
\* holds that very message; whoever is being written to, an hour ago.
Distant(n, h, c) == n - h[c].told >= Hour
Noted(kept, m, h, c) == \E e \in kept : e.chat = c /\ e.message = m /\ e.at = h[c].told
RoundSpaced(r, n, h, kept) ==
  /\ r.at \in {"alerting", "sending"} =>
       \A i \in DOMAIN r.left : Distant(n, h, r.left[i]) \/ Noted(kept, r.message, h, r.left[i])
  /\ r.at = "sending" => Distant(n, h, Head(r.left))
  /\ r.at \in {"sending", "telling"} => r.left # <<>>

NoticesInv == NoticesShape /\ ToldKnown /\ RoundSpaced(round, now, heard, recorded)

LEMMA IdleRound ==
  /\ Idle \in Rounds /\ [Idle EXCEPT !.at = "deciding"] \in Rounds
  /\ Idle.at = "idle" /\ [Idle EXCEPT !.at = "deciding"].at = "deciding"
  <1>1. <<>> \in Seq(Chats)
    OBVIOUS
  <1> QED BY <1>1 DEF Idle, Rounds, Texts

LEMMA ChatsOfRecipients ==
  /\ Recipients \in Seq(Chats) /\ \A c \in Chats : \E i \in DOMAIN Recipients : Recipients[i] = c
  BY NoticesAssumption DEF NoticesAssumption, Chats, Range

LEMMA LeftOver ==
  ASSUME NEW r \in Rounds, r.left # <<>>
  PROVE  /\ Head(r.left) \in Chats /\ Tail(r.left) \in Seq(Chats)
         /\ \A i \in DOMAIN Tail(r.left) : i + 1 \in DOMAIN r.left /\ Tail(r.left)[i] = r.left[i + 1]
         /\ 1 \in DOMAIN r.left /\ Head(r.left) = r.left[1]
  <1>1. r.left \in Seq(Chats)
    BY DEF Rounds
  <1>2. Len(r.left) \in Nat /\ Len(r.left) > 0
    BY <1>1, EmptySeq
  <1> QED BY <1>1, <1>2, HeadTailProperties

LEMMA NoticesStart == NoticesInit => NoticesInv
  <1> SUFFICES ASSUME NoticesInit PROVE NoticesInv
    OBVIOUS
  <1>1. Never \in Int /\ Never <= 0
    BY NoticesAssumption DEF NoticesAssumption, Never
  <1>2. NoticesShape
    BY <1>1, IdleRound DEF NoticesInit, NoticesShape, Chats
  <1>3. ToldKnown
    BY <1>1 DEF NoticesInit, ToldKnown, Chats
  <1>4. RoundSpaced(round, now, heard, recorded)
    BY IdleRound DEF NoticesInit, RoundSpaced
  <1> QED BY <1>2, <1>3, <1>4 DEF NoticesInv

\* A round that neither alerts nor waits for a message owes nothing.
LEMMA Resting ==
  ASSUME NEW r, NEW n, NEW h, NEW kept, r.at \notin {"alerting", "sending", "telling"}
  PROVE  RoundSpaced(r, n, h, kept)
  BY DEF RoundSpaced

\* Only the round changes.
LEMMA RoundOnly ==
  ASSUME NoticesInv, UNCHANGED <<now, lastAlert, recorded, heard>>, round' \in Rounds,
         RoundSpaced(round', now, heard, recorded)
  PROVE  NoticesInv'
  BY DEF NoticesInv, NoticesShape, ToldKnown, RoundSpaced, Distant, Noted

LEMMA ScanStartsKeeps == ASSUME NoticesInv, ScanStarts PROVE NoticesInv'
  <1>1. round' \in Rounds /\ round'.at = "deciding" /\ UNCHANGED <<now, lastAlert, recorded, heard>>
    BY IdleRound DEF ScanStarts
  <1>2. RoundSpaced(round', now, heard, recorded)
    BY <1>1, Resting
  <1> QED BY <1>1, <1>2, RoundOnly

\* An alert begins an hour after the last that anybody is known to have got.
LEMMA ScanDecidesKeeps == ASSUME NoticesInv, ScanDecides PROVE NoticesInv'
  <1>0. UNCHANGED <<now, lastAlert, recorded, heard>>
    BY DEF ScanDecides
  <1>1. CASE round' = Idle
    <2>1. RoundSpaced(round', now, heard, recorded)
      BY <1>1, IdleRound, Resting
    <2> QED BY <1>0, <1>1, <2>1, IdleRound, RoundOnly
  <1>2. CASE \E message \in Messages, signal \in BOOLEAN :
               /\ ~ShouldSuppress
               /\ round' = [at |-> "alerting", message |-> message, signal |-> signal, left |-> Recipients]
    <2>1. PICK message \in Messages, signal \in BOOLEAN :
               /\ ~ShouldSuppress
               /\ round' = [at |-> "alerting", message |-> message, signal |-> signal, left |-> Recipients]
      BY <1>2
    <2>2. round' \in Rounds
      BY <2>1, ChatsOfRecipients DEF Rounds, Texts
    <2>3. \A c \in Chats : Distant(now, heard, c)
      <3> TAKE c \in Chats
      <3>1. now - lastAlert >= Hour /\ now \in Int /\ lastAlert \in Int /\ Hour \in Int
        BY <2>1, NoticesAssumption DEF ShouldSuppress, NoticesInv, NoticesShape, NoticesAssumption
      <3>2. heard[c].told \in Int /\ heard[c].told <= lastAlert
        BY DEF NoticesInv, NoticesShape, ToldKnown
      <3> QED BY <3>1, <3>2 DEF Distant
    <2>4. \A i \in DOMAIN Recipients : Recipients[i] \in Chats
      BY DEF Chats, Range
    <2>5. RoundSpaced(round', now, heard, recorded)
      BY <2>1, <2>3, <2>4 DEF RoundSpaced
    <2> QED BY <1>0, <2>2, <2>5, RoundOnly
  <1> QED BY <1>1, <1>2 DEF ScanDecides

\* A message the cache knows is not sent, and what it does not know of was
\* told an hour ago.
LEMMA AlertNextKeeps == ASSUME NoticesInv, AlertNext PROVE NoticesInv'
  <1> DEFINE chat == Head(round.left)
  <1>1. /\ round \in Rounds /\ round.at = "alerting" /\ round.left # <<>>
        /\ UNCHANGED <<now, lastAlert, recorded, heard>>
    BY DEF NoticesInv, NoticesShape, AlertNext
  <1>2. \A i \in DOMAIN round.left :
          Distant(now, heard, round.left[i]) \/ Noted(recorded, round.message, heard, round.left[i])
    BY <1>1 DEF NoticesInv, RoundSpaced
  <1>3. CASE round' = [round EXCEPT !.left = Tail(@)]
    <2>1. /\ round' \in Rounds /\ round'.at = "alerting" /\ round'.message = round.message
          /\ round'.left = Tail(round.left)
      BY <1>1, <1>3, LeftOver DEF Rounds
    <2>2. RoundSpaced(round', now, heard, recorded)
      BY <1>1, <1>2, <2>1, LeftOver DEF RoundSpaced
    <2> QED BY <1>1, <2>1, <2>2, RoundOnly
  <1>4. CASE ~IsDuplicate(chat, round.message) /\ round' = [round EXCEPT !.at = "sending"]
    <2>1. /\ round' \in Rounds /\ round'.at = "sending" /\ round'.message = round.message
          /\ round'.left = round.left
      BY <1>1, <1>4 DEF Rounds
    <2>2. chat \in Chats /\ 1 \in DOMAIN round.left /\ chat = round.left[1]
      BY <1>1, LeftOver
    <2>3. Distant(now, heard, chat)
      <3>1. CASE Noted(recorded, round.message, heard, chat)
        <4>1. PICK e \in recorded : e.chat = chat /\ e.message = round.message /\ e.at = heard[chat].told
          BY <3>1 DEF Noted
        <4>2. ~(now - e.at < Hour)
          BY <1>4, <4>1 DEF IsDuplicate, Fresh
        <4>3. now \in Int /\ heard[chat].told \in Int /\ Hour \in Int
          BY <2>2, NoticesAssumption DEF NoticesInv, NoticesShape, NoticesAssumption
        <4> HIDE DEF chat
        <4> QED BY <4>1, <4>2, <4>3 DEF Distant
      <3> QED BY <1>2, <2>2, <3>1
    <2>4. RoundSpaced(round', now, heard, recorded)
      BY <1>1, <1>2, <2>1, <2>3 DEF RoundSpaced
    <2> QED BY <1>1, <2>1, <2>4, RoundOnly
  <1> QED BY <1>3, <1>4 DEF AlertNext

\* A confirmed message is noted; what the cache lets go is an hour old.
LEMMA SendEndsKeeps == ASSUME NoticesInv, SendEnds PROVE NoticesInv'
  <1> DEFINE chat == Head(round.left)
  <1>1. /\ round \in Rounds /\ round.at = "sending" /\ round.left # <<>> /\ now' = now
        /\ now \in Int /\ Hour \in Int
        /\ heard \in [Chats -> [told : Int, turn : BOOLEAN]]
        /\ recorded \subseteq [chat : Chats, message : Texts, at : Int]
    BY NoticesAssumption DEF NoticesInv, NoticesShape, RoundSpaced, SendEnds, NoticesAssumption
  <1>2. /\ round' \in Rounds /\ round'.at = "alerting" /\ round'.message = round.message
        /\ round'.left = Tail(round.left)
    <2>1. round' = [round EXCEPT !.at = "alerting", !.left = Tail(@)]
      BY DEF SendEnds
    <2> QED BY <1>1, <2>1, LeftOver DEF Rounds
  <1>3. \A i \in DOMAIN round'.left :
          /\ round'.left[i] \in Chats
          /\ \/ Distant(now, heard, round'.left[i])
             \/ Noted(recorded, round.message, heard, round'.left[i])
    <2>1. \A i \in DOMAIN round.left :
            \/ Distant(now, heard, round.left[i])
            \/ Noted(recorded, round.message, heard, round.left[i])
      BY <1>1 DEF NoticesInv, RoundSpaced
    <2>2. \A i \in DOMAIN round.left : round.left[i] \in Chats
      BY <1>1 DEF Rounds
    <2>3. \A i \in DOMAIN Tail(round.left) :
            i + 1 \in DOMAIN round.left /\ Tail(round.left)[i] = round.left[i + 1]
      BY <1>1, LeftOver
    <2>4. ASSUME NEW i \in DOMAIN round'.left
          PROVE  \E j \in DOMAIN round.left : round'.left[i] = round.left[j]
      BY <1>2, <2>3
    <2> QED BY <2>1, <2>2, <2>4
  <1>4. CASE UNCHANGED <<lastAlert, recorded>> /\ (heard' = heard \/ Arrives(chat, FALSE))
    <2>1. /\ heard' \in [Chats -> [told : Int, turn : BOOLEAN]]
          /\ \A c \in Chats : heard'[c].told = heard[c].told
      <3>1. CASE heard' = heard
        <4> HIDE DEF chat
        <4> QED BY <1>1, <3>1
      <3>2. CASE heard' = [heard EXCEPT ![chat] = [told |-> @.told, turn |-> ~@.turn]]
        <4>1. chat \in Chats
          BY <1>1, LeftOver
        <4> HIDE DEF chat
        <4> QED BY <1>1, <3>2, <4>1
      <3> QED BY <1>4, <3>1, <3>2 DEF Arrives
    <2>2. NoticesShape' /\ ToldKnown'
      BY <1>2, <1>4, <1>1, <2>1 DEF NoticesInv, NoticesShape, ToldKnown
    <2>3. RoundSpaced(round', now', heard', recorded')
      BY <1>1, <1>2, <1>3, <1>4, <2>1 DEF RoundSpaced, Distant, Noted
    <2> QED BY <2>2, <2>3 DEF NoticesInv
  <1>5. CASE /\ lastAlert' = now /\ Arrives(chat, TRUE)
             /\ recorded' = Fresh \cup {[chat |-> chat, message |-> round.message, at |-> now]}
    <2>0. chat \in Chats
      BY <1>1, LeftOver
    <2>1. heard' = [heard EXCEPT ![chat] = [told |-> now, turn |-> ~@.turn]]
      BY <1>5 DEF Arrives
    <2>2. recorded' = Fresh \cup {[chat |-> chat, message |-> round.message, at |-> now]}
      BY <1>5
    <2>3. lastAlert' = now
      BY <1>5
    <2> HIDE DEF chat
    <2>4. heard' \in [Chats -> [told : Int, turn : BOOLEAN]]
      BY <1>1, <2>0, <2>1
    <2>5. recorded' \subseteq [chat : Chats, message : Texts, at : Int]
      <3>1. round.message \in Texts
        BY <1>1 DEF Rounds
      <3> QED BY <1>1, <2>0, <2>2, <3>1 DEF Fresh
    <2>6. NoticesShape'
      <3>1. now' \in Nat /\ lastAlert' \in Int /\ lastAlert' <= now'
        BY <1>1, <2>3 DEF NoticesInv, NoticesShape
      <3> QED BY <1>2, <2>4, <2>5, <3>1 DEF NoticesShape
    <2>7. heard'[chat].told = now /\ \A c \in Chats \ {chat} : heard'[c].told = heard[c].told
      BY <1>1, <2>0, <2>1
    <2>8. ToldKnown'
      <3>1. \A c \in Chats : heard[c].told <= now
        <4>1. \A c \in Chats : heard[c].told <= lastAlert /\ heard[c].told \in Int
          BY DEF NoticesInv, NoticesShape, ToldKnown
        <4>2. lastAlert <= now /\ lastAlert \in Int
          BY DEF NoticesInv, NoticesShape
        <4> QED BY <1>1, <4>1, <4>2
      <3> QED BY <1>1, <2>3, <2>7, <3>1 DEF ToldKnown
    <2>9. \A c \in Chats : Distant(now, heard, c) \/ Noted(recorded, round.message, heard, c)
            => Distant(now, heard', c) \/ Noted(recorded', round.message, heard', c)
      <3> TAKE c \in Chats
      <3>1. CASE c = chat
        <4>1. [chat |-> chat, message |-> round.message, at |-> now] \in recorded'
          BY <2>2
        <4>2. Noted(recorded', round.message, heard', chat)
          BY <2>7, <4>1 DEF Noted
        <4> QED BY <3>1, <4>2
      <3>2. CASE c # chat /\ Distant(now, heard, c)
        BY <2>7, <3>2 DEF Distant
      <3>3. CASE c # chat /\ Noted(recorded, round.message, heard, c)
        <4>1. PICK e \in recorded : e.chat = c /\ e.message = round.message /\ e.at = heard[c].told
          BY <3>3 DEF Noted
        <4>2. CASE now - e.at < Hour
          <5>1. e \in recorded'
            BY <2>2, <4>1, <4>2 DEF Fresh
          <5> QED BY <2>7, <3>3, <4>1, <5>1 DEF Noted
        <4>3. CASE ~(now - e.at < Hour)
          <5>1. e.at \in Int
            BY <1>1, <4>1
          <5> QED BY <1>1, <2>7, <3>3, <4>1, <4>3, <5>1 DEF Distant
        <4> QED BY <4>2, <4>3
      <3> QED BY <3>1, <3>2, <3>3
    <2>10. RoundSpaced(round', now', heard', recorded')
      BY <1>1, <1>2, <1>3, <2>9 DEF RoundSpaced
    <2> QED BY <2>6, <2>8, <2>10 DEF NoticesInv
  <1>6. \/ UNCHANGED <<lastAlert, recorded>> /\ (heard' = heard \/ Arrives(chat, FALSE))
        \/ /\ lastAlert' = now /\ Arrives(chat, TRUE)
           /\ recorded' = Fresh \cup {[chat |-> chat, message |-> round.message, at |-> now]}
    BY DEF SendEnds, MarkAlerted
  <1> HIDE DEF chat
  <1> QED BY <1>4, <1>5, <1>6

LEMMA AlertsOutKeeps == ASSUME NoticesInv, AlertsOut PROVE NoticesInv'
  <1>1. round \in Rounds /\ UNCHANGED <<now, lastAlert, recorded, heard>>
    BY DEF NoticesInv, NoticesShape, AlertsOut
  <1>2. CASE round' = [round EXCEPT !.at = "signalling", !.left = Recipients]
    <2>1. round' \in Rounds /\ round'.at = "signalling"
      BY <1>1, <1>2, ChatsOfRecipients DEF Rounds
    <2> QED BY <1>1, <2>1, Resting, RoundOnly
  <1>3. CASE round' = Idle
    BY <1>1, <1>3, IdleRound, Resting, RoundOnly
  <1> QED BY <1>2, <1>3 DEF AlertsOut

LEMMA SignalNextKeeps == ASSUME NoticesInv, SignalNext PROVE NoticesInv'
  <1>1. round \in Rounds /\ round.at = "signalling" /\ UNCHANGED <<now, lastAlert, recorded, heard>>
    BY DEF NoticesInv, NoticesShape, SignalNext
  <1>2. CASE round' = Idle
    BY <1>1, <1>2, IdleRound, Resting, RoundOnly
  <1>3. CASE round.left # <<>> /\ round' = [round EXCEPT !.left = Tail(@)]
    <2>1. round' \in Rounds /\ round'.at = "signalling"
      BY <1>1, <1>3, LeftOver DEF Rounds
    <2> QED BY <1>1, <2>1, Resting, RoundOnly
  <1>4. CASE round.left # <<>> /\ round' = [round EXCEPT !.at = "telling"]
    <2>1. round' \in Rounds /\ round'.at = "telling" /\ round'.left # <<>>
      BY <1>1, <1>4 DEF Rounds
    <2>2. RoundSpaced(round', now, heard, recorded)
      BY <2>1 DEF RoundSpaced
    <2> QED BY <1>1, <2>1, <2>2, RoundOnly
  <1> QED BY <1>2, <1>3, <1>4 DEF SignalNext

LEMMA SignalToldKeeps == ASSUME NoticesInv, SignalTold PROVE NoticesInv'
  <1>1. /\ round \in Rounds /\ round.at = "telling" /\ round.left # <<>>
        /\ UNCHANGED <<now, lastAlert, recorded, heard>>
        /\ round' = [round EXCEPT !.at = "signalling", !.left = Tail(@)]
    BY DEF NoticesInv, NoticesShape, RoundSpaced, SignalTold
  <1>2. round' \in Rounds /\ round'.at = "signalling"
    BY <1>1, LeftOver DEF Rounds
  <1> QED BY <1>1, <1>2, Resting, RoundOnly

LEMMA ScanCutKeeps == ASSUME NoticesInv, ScanCut PROVE NoticesInv'
  <1> DEFINE chat == Head(round.left)
  <1>1. /\ round \in Rounds /\ round' = Idle /\ UNCHANGED <<now, lastAlert, recorded>>
        /\ heard \in [Chats -> [told : Int, turn : BOOLEAN]]
    BY DEF NoticesInv, NoticesShape, ScanCut
  <1>2. /\ heard' \in [Chats -> [told : Int, turn : BOOLEAN]]
        /\ \A c \in Chats : heard'[c].told = heard[c].told
    <2>1. CASE heard' = heard
      BY <1>1, <2>1
    <2>2. CASE round.at = "sending" /\ heard' = [heard EXCEPT ![chat] = [told |-> @.told, turn |-> ~@.turn]]
      <3>1. chat \in Chats
        BY <1>1, <2>2, LeftOver DEF NoticesInv, RoundSpaced
      <3> HIDE DEF chat
      <3> QED BY <1>1, <2>2, <3>1
    <2> QED BY <2>1, <2>2 DEF ScanCut, Arrives
  <1>3. NoticesShape' /\ ToldKnown'
    BY <1>1, <1>2, IdleRound DEF NoticesInv, NoticesShape, ToldKnown
  <1>4. RoundSpaced(round', now', heard', recorded')
    BY <1>1, IdleRound, Resting
  <1> QED BY <1>3, <1>4 DEF NoticesInv

LEMMA NoticesRestartKeeps == ASSUME NoticesInv, NoticesRestart PROVE NoticesInv'
  <1>1. /\ round' = Idle /\ lastAlert' = Never /\ recorded' = {} /\ now' = now
        /\ heard' = [c \in DOMAIN heard |-> [heard[c] EXCEPT !.told = Never]]
        /\ heard \in [Chats -> [told : Int, turn : BOOLEAN]] /\ now \in Nat
    BY DEF NoticesInv, NoticesShape, NoticesRestart
  <1>2. Never \in Int /\ Never <= 0
    BY NoticesAssumption DEF NoticesAssumption, Never
  <1>3. heard' \in [Chats -> [told : Int, turn : BOOLEAN]] /\ \A c \in Chats : heard'[c].told = Never
    BY <1>1, <1>2
  <1>4. ToldKnown'
    BY <1>1, <1>2, <1>3 DEF ToldKnown
  <1>5. RoundSpaced(round', now', heard', recorded')
    BY <1>1, IdleRound, Resting
  <1>6. NoticesShape'
    BY <1>1, <1>2, <1>3, IdleRound DEF NoticesShape
  <1> QED BY <1>4, <1>5, <1>6 DEF NoticesInv

\* Time only takes the last message further away.
LEMMA NoticesClockKeeps == ASSUME NoticesInv, NoticesClock PROVE NoticesInv'
  <1>1. /\ now' = now + 1 /\ now \in Int /\ Hour \in Int
        /\ UNCHANGED <<round, lastAlert, recorded, heard>>
        /\ round \in Rounds /\ heard \in [Chats -> [told : Int, turn : BOOLEAN]]
    BY NoticesAssumption DEF NoticesInv, NoticesShape, NoticesClock, NoticesAssumption
  <1>2. NoticesShape' /\ ToldKnown'
    BY <1>1 DEF NoticesInv, NoticesShape, ToldKnown
  <1>3. \A c \in Chats : Distant(now, heard, c) => Distant(now', heard, c)
    BY <1>1 DEF Distant
  <1>4. \A i \in DOMAIN round.left : round.left[i] \in Chats
    BY <1>1 DEF Rounds
  <1>5. round.left # <<>> => Head(round.left) \in Chats
    BY <1>1, LeftOver
  <1>6. RoundSpaced(round, now', heard, recorded)
    BY <1>3, <1>4, <1>5 DEF NoticesInv, RoundSpaced
  <1> QED BY <1>1, <1>2, <1>6 DEF NoticesInv

LEMMA NoticesStep == NoticesInv /\ [NoticesNext]_noticesVars => NoticesInv'
  <1> SUFFICES ASSUME NoticesInv, [NoticesNext]_noticesVars PROVE NoticesInv'
    OBVIOUS
  <1>1. CASE NoticesNext
    BY <1>1, ScanStartsKeeps, ScanDecidesKeeps, AlertNextKeeps, SendEndsKeeps, AlertsOutKeeps,
       SignalNextKeeps, SignalToldKeeps, ScanCutKeeps, NoticesRestartKeeps, NoticesClockKeeps
       DEF NoticesNext
  <1>2. CASE UNCHANGED noticesVars
    BY <1>2 DEF noticesVars, NoticesInv, NoticesShape, ToldKnown, RoundSpaced, Distant, Noted
  <1> QED BY <1>1, <1>2

\* A message arrives only at the end of a call for the chat written to.
LEMMA ArrivalsApart ==
  ASSUME NoticesInv, [NoticesNext]_noticesVars
  PROVE  \A c \in DOMAIN heard : heard'[c].turn # heard[c].turn => now - heard[c].told >= Hour
  <1> SUFFICES ASSUME NEW c \in DOMAIN heard, heard'[c].turn # heard[c].turn
               PROVE  now - heard[c].told >= Hour
    OBVIOUS
  <1>1. heard \in [Chats -> [told : Int, turn : BOOLEAN]] /\ c \in Chats
    BY DEF NoticesInv, NoticesShape
  <1>2. SendEnds \/ ScanCut
    <2>1. heard' # heard
      OBVIOUS
    <2>2. ~NoticesRestart
      BY <1>1 DEF NoticesRestart
    <2> QED BY <2>1, <2>2 DEF NoticesNext, noticesVars, ScanStarts, ScanDecides, AlertNext, AlertsOut,
               SignalNext, SignalTold, NoticesClock
  <1>3. round.at = "sending" /\ \E confirmed \in BOOLEAN : Arrives(Head(round.left), confirmed)
    BY <1>2 DEF SendEnds, ScanCut
  <1>4. PICK confirmed \in BOOLEAN : Arrives(Head(round.left), confirmed)
    BY <1>3
  <1>5. c = Head(round.left)
    BY <1>1, <1>4 DEF Arrives
  <1>6. Distant(now, heard, Head(round.left))
    BY <1>3 DEF NoticesInv, RoundSpaced
  <1> QED BY <1>5, <1>6 DEF Distant

\* No chat hears two alerts within the hour, whatever is cut off, lost or
\* unconfirmed and however often a chat is listed, except where Telegram never
\* confirmed the first or a restart forgot it (proactive_engine.py, alerts.py and
\* the analysis task of cron.py).
THEOREM AlertsAreSpaced == NoticesSpec => AlertsSpaced
  <1>1. NoticesInv /\ [NoticesNext]_noticesVars
          => [\A c \in DOMAIN heard : heard'[c].turn # heard[c].turn => now - heard[c].told >= Hour]_noticesVars
    BY ArrivalsApart
  <1> QED BY <1>1, NoticesStart, NoticesStep, PTL DEF NoticesSpec, AlertsSpaced
=============================================================================
