--------------------------- MODULE RedisClientProofs ---------------------------
(***************************************************************************)
(* Safety of the go-redis client for any number of commands, connections,  *)
(* retries and faults, and for a pool of any size.                         *)
(***************************************************************************)
EXTENDS RedisClient, FiniteSetTheorems, SequenceTheorems, TLAPS

Idle == {idleConns[i] : i \in 1..Len(idleConns)}

(* OneOwner, without counting. *)
InvOwner ==
  /\ \A i, j \in 1..Len(idleConns) : idleConns[i] = idleConns[j] => i = j
  /\ \A c \in Cmds : cn[c] # None => cn[c] \in conns \ Idle
  /\ \A c, d \in Cmds : cn[c] # None /\ cn[c] = cn[d] => c = d
  /\ \A k \in conns : k \in Idle \/ \E c \in Cmds : cn[c] = k

HoldSteps == {"check", "init", "write", "read", "release"}
TurnSteps == HoldSteps \cup {"pop", "gate", "dial", "free"}
DialSteps == {"gate", "dial"}
At(S) == {c \in Cmds : pc[c] \in S}

(* PoolBounded, with what makes the numbers numbers. *)
InvPool ==
  /\ IsFiniteSet(At(TurnSteps)) /\ queue = Cardinality(At(TurnSteps))
  /\ IsFiniteSet(conns) /\ poolSize = Cardinality(conns) /\ pooled = conns
  /\ poolSize + Cardinality(At(DialSteps)) <= PoolSize

(* The types of the pool's own variables. *)
PoolTypes ==
  /\ queue \in 0..PoolSize /\ poolSize \in 0..PoolSize
  /\ conns \subseteq Conns /\ idleConns \in Seq(conns)
  /\ dialErrorsNum \in Nat /\ tryDials \in Nat
  /\ pc \in [Cmds -> Step] /\ cn \in [Cmds -> Conns \cup {None}]
  /\ \A c \in Cmds : pc[c] \in HoldSteps <=> cn[c] # None

IPool == PoolTypes /\ InvOwner /\ InvPool /\ GateHasDialer

-----------------------------------------------------------------------------
(* Counting the goroutines at a step. *)

(* One goroutine moves from one step to another. *)
LEMMA PcMoves ==
  ASSUME NEW c \in Cmds, NEW t, pc \in [Cmds -> Step], pc' = [pc EXCEPT ![c] = t]
  PROVE  pc'[c] = t /\ \A d \in Cmds \ {c} : pc'[d] = pc[d]
  OBVIOUS

(* A set of goroutines that is not larger than a finite one. *)
LEMMA SubsetCard ==
  ASSUME NEW S, NEW T, IsFiniteSet(S), T \subseteq S
  PROVE  IsFiniteSet(T) /\ Cardinality(T) \in Nat /\ Cardinality(S) \in Nat
         /\ Cardinality(T) <= Cardinality(S)
  BY FS_Subset, FS_CardinalityType

(* The numbers that InvPool compares. *)
LEMMA PoolNumbers ==
  ASSUME IPool
  PROVE  /\ queue \in Nat /\ poolSize \in Nat /\ PoolSize \in Nat /\ PoolSize > 0
         /\ IsFiniteSet(At(DialSteps)) /\ Cardinality(At(DialSteps)) \in Nat
         /\ Cardinality(At(TurnSteps)) \in Nat /\ Cardinality(conns) \in Nat
  <1>1. At(DialSteps) \subseteq At(TurnSteps)
    BY DEF At, DialSteps, TurnSteps
  <1>2. IsFiniteSet(At(TurnSteps)) /\ IsFiniteSet(conns)
    BY DEF IPool, InvPool
  <1> QED
    BY <1>1, <1>2, SubsetCard, FS_CardinalityType, SizeAssumption DEF IPool, PoolTypes

(* A step of c that takes or gives back a turn and leaves the pool as it   *)
(* is; only popIdle adds to those who may dial.                            *)
LEMMA StepKeepsPool ==
  ASSUME IPool, NEW c \in Cmds, NEW t \in Step, pc' = [pc EXCEPT ![c] = t],
         UNCHANGED <<heldVars, cn>>,
         t \in HoldSteps <=> pc[c] \in HoldSteps,
         t \in DialSteps => pc[c] \in DialSteps,
         t \in TurnSteps <=> pc[c] \in TurnSteps, UNCHANGED queue,
         dialErrorsNum' \in Nat /\ tryDials' \in Nat /\ GateHasDialer'
  PROVE  IPool'
  <1> USE DEF heldVars
  <1>1. pc \in [Cmds -> Step]
    BY DEF IPool, PoolTypes
  <1>2. At(TurnSteps)' = At(TurnSteps)
    BY <1>1, PcMoves DEF At
  <1>3. At(DialSteps)' \subseteq At(DialSteps)
    BY <1>1, PcMoves DEF At
  <1>4. Cardinality(At(DialSteps)') \in Nat /\ Cardinality(At(DialSteps)') <= Cardinality(At(DialSteps))
    BY <1>3, PoolNumbers, SubsetCard
  <1>5. PoolTypes'
    BY DEF IPool, PoolTypes
  <1>6. InvOwner'
    BY DEF IPool, InvOwner, Idle
  <1>7. InvPool'
    BY <1>2, <1>4, PoolNumbers DEF IPool, InvPool
  <1> QED
    BY <1>5, <1>6, <1>7 DEF IPool

(* Initially the pool is empty and nobody has a turn. *)
LEMMA PoolInit == Init => IPool
  <1> SUFFICES ASSUME Init PROVE IPool
    OBVIOUS
  <1>1. \A S : S \subseteq TurnSteps => At(S) = {}
    BY DEF Init, At, TurnSteps, HoldSteps
  <1>2. At(TurnSteps) = {} /\ At(DialSteps) = {}
    BY <1>1 DEF DialSteps, TurnSteps
  <1>3. PoolTypes
    BY SizeAssumption DEF Init, PoolTypes, Step, HoldSteps
  <1>4. InvOwner
    BY DEF Init, InvOwner, Idle
  <1>5. InvPool
    BY <1>2, SizeAssumption, FS_EmptySet DEF Init, InvPool
  <1>6. GateHasDialer
    BY SizeAssumption DEF Init, GateHasDialer
  <1> QED
    BY <1>3, <1>4, <1>5, <1>6 DEF IPool

(* A turn is taken only while there is one. *)
LEMMA WaitTurnKeepsPool ==
  ASSUME IPool, NEW c \in Cmds, waitTurn(c)
  PROVE  IPool'
  <1> USE DEF heldVars, dialVars
  <1>1. pc \in [Cmds -> Step] /\ pc' = [pc EXCEPT ![c] = "pop"] /\ pc[c] = "turn"
    BY DEF IPool, PoolTypes, waitTurn, Goto
  <1>2. At(TurnSteps)' = At(TurnSteps) \cup {c} /\ c \notin At(TurnSteps)
    BY <1>1, PcMoves DEF At, TurnSteps, HoldSteps
  <1>3. At(DialSteps)' = At(DialSteps)
    BY <1>1, PcMoves DEF At, DialSteps
  <1>4. queue' = queue + 1 /\ queue < PoolSize /\ UNCHANGED <<conns, pooled, idleConns, poolSize, cn, dialErrorsNum, tryDials>>
    BY DEF waitTurn, TurnFree
  <1>5. PoolTypes'
    BY <1>1, <1>4, PoolNumbers DEF IPool, PoolTypes, Step, HoldSteps
  <1>6. InvOwner' /\ GateHasDialer'
    BY <1>4 DEF IPool, InvOwner, Idle, GateHasDialer
  <1>7. IsFiniteSet(At(TurnSteps)') /\ Cardinality(At(TurnSteps)') = Cardinality(At(TurnSteps)) + 1
    BY <1>2, FS_AddElement DEF IPool, InvPool
  <1>8. InvPool'
    BY <1>3, <1>4, <1>7 DEF IPool, InvPool
  <1> QED
    BY <1>5, <1>6, <1>8 DEF IPool

(* A turn that is given back was held. *)
LEMMA FreeTurnKeepsPool ==
  ASSUME IPool, NEW c \in Cmds, freeTurn(c)
  PROVE  IPool'
  <1> USE DEF heldVars, dialVars
  <1>1. pc \in [Cmds -> Step] /\ pc[c] = "free"
    BY DEF IPool, PoolTypes, freeTurn
  <1>2. PICK t \in {"backoff", "done"} : pc' = [pc EXCEPT ![c] = t]
    BY DEF freeTurn, Goto
  <1>3. At(TurnSteps)' = At(TurnSteps) \ {c} /\ c \in At(TurnSteps)
    BY <1>1, <1>2, PcMoves DEF At, TurnSteps, HoldSteps
  <1>4. At(DialSteps)' = At(DialSteps)
    BY <1>1, <1>2, PcMoves DEF At, DialSteps
  <1>5. queue' = queue - 1 /\ UNCHANGED <<conns, pooled, idleConns, poolSize, cn, dialErrorsNum, tryDials>>
    BY DEF freeTurn
  <1>6. IsFiniteSet(At(TurnSteps)') /\ Cardinality(At(TurnSteps)') = Cardinality(At(TurnSteps)) - 1
    BY <1>3, FS_RemoveElement DEF IPool, InvPool
  <1>7. Cardinality(At(TurnSteps)') \in Nat
    BY <1>6, FS_CardinalityType
  <1>8. PoolTypes'
    BY <1>1, <1>2, <1>5, <1>6, <1>7, PoolNumbers DEF IPool, PoolTypes, InvPool, Step, HoldSteps
  <1>9. InvOwner' /\ GateHasDialer'
    BY <1>5 DEF IPool, InvOwner, Idle, GateHasDialer
  <1>10. InvPool'
    BY <1>4, <1>5, <1>6 DEF IPool, InvPool
  <1> QED
    BY <1>8, <1>9, <1>10 DEF IPool

(* The steps that move one goroutine and leave the pool alone. *)
LEMMA PlainStepKeepsPool ==
  ASSUME IPool, NEW c \in Cmds,
         \/ process(c) \/ waitTurnFails(c) \/ isHealthyConn(c) \/ dialGate(c)
         \/ initConn(c) \/ initConnSkewed(c)
         \/ writeCmd(c) \/ readReply(c) \/ ioFails(c) \/ readTimeout(c) \/ retryBackoff(c)
  PROVE  IPool'
  <1> USE DEF poolVars, dialVars
  <1>1. UNCHANGED <<poolVars, dialVars, cn>>
    BY DEF process, waitTurnFails, isHealthyConn, dialGate, initConn, initConnSkewed,
           writeCmd, readReply, ioFails, readTimeout, retryBackoff
  <1>2. PICK t \in Step :
          /\ pc' = [pc EXCEPT ![c] = t]
          /\ t \in HoldSteps <=> pc[c] \in HoldSteps
          /\ t \in DialSteps => pc[c] \in DialSteps
          /\ t \in TurnSteps <=> pc[c] \in TurnSteps
    <2> USE DEF Goto, Ends, Step, HoldSteps, DialSteps, TurnSteps
    <2>1. CASE process(c)
      BY <2>1 DEF process
    <2>2. CASE waitTurnFails(c)
      BY <2>2 DEF waitTurnFails
    <2>3. CASE isHealthyConn(c)
      BY <2>3 DEF isHealthyConn
    <2>4. CASE dialGate(c)
      BY <2>4 DEF dialGate
    <2>5. CASE initConn(c) \/ initConnSkewed(c)
      BY <2>5 DEF initConn, initConnSkewed
    <2>6. CASE writeCmd(c)
      BY <2>6 DEF writeCmd
    <2>7. CASE readReply(c)
      BY <2>7 DEF readReply
    <2>8. CASE ioFails(c) \/ readTimeout(c)
      BY <2>8 DEF ioFails, readTimeout
    <2>9. CASE retryBackoff(c)
      BY <2>9 DEF retryBackoff
    <2> QED
      BY <2>1, <2>2, <2>3, <2>4, <2>5, <2>6, <2>7, <2>8, <2>9
  <1>3. dialErrorsNum' \in Nat /\ tryDials' \in Nat /\ GateHasDialer'
    BY <1>1 DEF IPool, PoolTypes, GateHasDialer
  <1> QED
    BY <1>1, <1>2, <1>3, StepKeepsPool

(* A failed dial closes the gate and starts tryDial, or finds both so. *)
LEMMA DialFailsKeepsPool ==
  ASSUME IPool, NEW c \in Cmds, dialConnFails(c)
  PROVE  IPool'
  <1>1. UNCHANGED <<queue, heldVars, cn>> /\ pc' = [pc EXCEPT ![c] = "free"] /\ pc[c] = "dial"
    BY DEF dialConnFails, poolVars, Ends, Goto
  <1>2. PoolSize \in Nat /\ dialErrorsNum \in Nat /\ tryDials \in Nat /\ GateHasDialer
    BY PoolNumbers DEF IPool, PoolTypes
  <1>3. dialErrorsNum' \in Nat /\ tryDials' \in Nat /\ GateHasDialer'
    BY <1>2 DEF dialConnFails, StartsTryDial, GateHasDialer
  <1> QED
    BY <1>1, <1>3, StepKeepsPool DEF Step, HoldSteps, DialSteps, TurnSteps

(* The steps of Redis, of the clients and of tryDial. *)
LEMMA OutsideKeepsPool ==
  ASSUME IPool, UNCHANGED <<poolVars, pc, cn>>, UNCHANGED dialVars \/ tryDial
  PROVE  IPool'
  <1> USE DEF poolVars, heldVars, dialVars
  <1>1. dialErrorsNum' \in Nat /\ tryDials' \in Nat /\ GateHasDialer'
    BY PoolNumbers DEF IPool, PoolTypes, GateHasDialer, tryDial
  <1> QED
    BY <1>1 DEF IPool, PoolTypes, InvOwner, InvPool, Idle, At

(* A connection leaves the list for the goroutine that takes it. *)
LEMMA PopKeepsOwner ==
  ASSUME PoolTypes, InvOwner, NEW c \in Cmds, cn[c] = None, idleConns # <<>>,
         cn' = [cn EXCEPT ![c] = idleConns[Len(idleConns)]], idleConns' = idleRest,
         UNCHANGED conns
  PROVE  /\ idleConns' \in Seq(conns) /\ idleConns[Len(idleConns)] \in conns
         /\ InvOwner'
  <1> DEFINE n == Len(idleConns)
             k == idleConns[n]
  <1>1. idleConns \in Seq(conns) /\ n \in Nat /\ n > 0 /\ conns \subseteq Conns
    BY EmptySeq DEF PoolTypes
  <1>2. \A i \in 1..n : idleConns[i] \in conns
    BY <1>1
  <1>3. k \in conns /\ k # None
    BY <1>1, <1>2, NamesAssumption
  <1>4. idleConns' \in Seq(conns) /\ Len(idleConns') = n - 1 /\ \A i \in 1..(n - 1) : idleConns'[i] = idleConns[i]
    <2>1. idleConns' = SubSeq(idleConns, 1, n - 1)
      BY DEF idleRest
    <2>2. \A i \in 1..(n - 1) : idleConns[i] \in conns
      BY <1>1, <1>2
    <2> HIDE DEF n
    <2>3. idleConns' \in Seq(conns)
      BY <1>1, <2>1, <2>2
    <2>4. Len(idleConns') = n - 1
      BY <1>1, <2>1, <2>2
    <2>5. \A i \in 1..(n - 1) : idleConns'[i] = idleConns[i]
      BY <1>1, <2>1, <2>2
    <2> QED
      BY <2>3, <2>4, <2>5
  <1>5. cn'[c] = k /\ \A d \in Cmds \ {c} : cn'[d] = cn[d]
    BY DEF PoolTypes
  <1> HIDE DEF k
  <1>6. k = idleConns[n]
    BY DEF k
  <1> HIDE DEF n
  <1>7. \A i, j \in 1..n : idleConns[i] = idleConns[j] => i = j
    BY DEF InvOwner, n
  <1>8. Idle' = Idle \ {k}
    <2>1. Idle = {idleConns[i] : i \in 1..n}
      BY DEF Idle, n
    <2>2. Idle' = {idleConns[i] : i \in 1..(n - 1)}
      BY <1>1, <1>4 DEF Idle
    <2> QED
      BY <2>1, <2>2, <1>1, <1>6, <1>7
  <1>9. k \in Idle
    BY <1>1, <1>6 DEF Idle, n
  <1>10. \A i, j \in 1..Len(idleConns') : idleConns'[i] = idleConns'[j] => i = j
    BY <1>1, <1>4, <1>7
  <1>11. \A d \in Cmds : cn'[d] # None => cn'[d] \in conns \ Idle'
    BY <1>3, <1>5, <1>8 DEF InvOwner
  <1>12. \A d, e \in Cmds : cn'[d] # None /\ cn'[d] = cn'[e] => d = e
    BY <1>3, <1>5, <1>9 DEF InvOwner
  <1>13. \A m \in conns : m \in Idle' \/ \E d \in Cmds : cn'[d] = m
    BY <1>1, <1>5, <1>8, NamesAssumption DEF InvOwner
  <1> QED
    BY <1>3, <1>4, <1>6, <1>10, <1>11, <1>12, <1>13 DEF InvOwner, n

(* With no idle connection every one is held by a goroutine with a turn:   *)
(* whoever finds the list empty may open another.                          *)
LEMMA EmptyPoolHasRoom ==
  ASSUME IPool, NEW c \in Cmds, pc[c] = "pop", idleConns = <<>>
  PROVE  poolSize + Cardinality(At(DialSteps)) + 1 <= PoolSize
  <1> DEFINE H == At(HoldSteps)
             D == At(DialSteps)
             T == At(TurnSteps)
             f == [d \in H |-> cn[d]]
  <1>1. Idle = {}
    BY DEF Idle
  <1>2. \A k \in conns : \E d \in H : cn[d] = k
    BY <1>1, NamesAssumption DEF IPool, InvOwner, PoolTypes, At
  <1>3. \A d \in H : cn[d] \in conns
    BY DEF IPool, InvOwner, PoolTypes, At
  <1>4. f \in Surjection(H, conns)
    BY <1>2, <1>3 DEF Surjection
  <1>5. IsFiniteSet(T) /\ Cardinality(T) = queue /\ queue \in 0..PoolSize /\ PoolSize \in Nat
    BY PoolNumbers DEF IPool, InvPool, PoolTypes
  <1>6. H \subseteq T /\ D \subseteq T /\ H \cap D = {} /\ c \in T /\ c \notin H \cup D
    BY DEF At, HoldSteps, DialSteps, TurnSteps
  <1> HIDE DEF H, D, T, f
  <1>7. IsFiniteSet(H) /\ IsFiniteSet(D) /\ IsFiniteSet(H \cup D)
    BY <1>5, <1>6, FS_Subset
  <1>8. Cardinality(conns) <= Cardinality(H)
    BY <1>4, <1>7, FS_Surjection
  <1>9. Cardinality(H \cup D) = Cardinality(H) + Cardinality(D)
    <2>1. Cardinality(H \cap D) = 0
      BY <1>6, FS_EmptySet
    <2>2. Cardinality(H \cup D) = Cardinality(H) + Cardinality(D) - Cardinality(H \cap D)
      BY <1>7, FS_Union
    <2>3. Cardinality(H) \in Nat /\ Cardinality(D) \in Nat
      BY <1>7, FS_CardinalityType
    <2> QED
      BY <2>1, <2>2, <2>3
  <1>10. Cardinality((H \cup D) \cup {c}) = Cardinality(H \cup D) + 1
    BY <1>6, <1>7, FS_AddElement
  <1>11. Cardinality((H \cup D) \cup {c}) <= Cardinality(T)
    BY <1>5, <1>6, FS_Subset
  <1>12. Cardinality(H) \in Nat /\ Cardinality(D) \in Nat /\ Cardinality(conns) \in Nat
    BY <1>7, PoolNumbers, FS_CardinalityType
  <1>13. poolSize = Cardinality(conns)
    BY DEF IPool, InvPool
  <1>14. poolSize + Cardinality(D) + 1 <= PoolSize
    BY <1>5, <1>8, <1>9, <1>10, <1>11, <1>12, <1>13
  <1> QED
    BY <1>14 DEF D

(* A connection popped from the pool is its command's alone. *)
LEMMA PopIdleKeepsPool ==
  ASSUME IPool, NEW c \in Cmds, popIdle(c)
  PROVE  IPool'
  <1> USE DEF dialVars
  <1>1. pc \in [Cmds -> Step] /\ pc[c] = "pop" /\ cn[c] = None /\ cn \in [Cmds -> Conns \cup {None}]
    BY DEF IPool, PoolTypes, popIdle, HoldSteps
  <1>2. UNCHANGED <<queue, conns, pooled, poolSize, dialErrorsNum, tryDials>>
    BY DEF popIdle
  <1>3. GateHasDialer'
    BY <1>2 DEF IPool, GateHasDialer
  <1>4. CASE idleConns = <<>> /\ Goto(c, "gate") /\ UNCHANGED <<idleConns, cn>>
    <2>1. pc' = [pc EXCEPT ![c] = "gate"]
      BY <1>4 DEF Goto
    <2>2. At(TurnSteps)' = At(TurnSteps)
      BY <1>1, <2>1, PcMoves DEF At, TurnSteps, HoldSteps
    <2>3. At(DialSteps)' = At(DialSteps) \cup {c} /\ c \notin At(DialSteps)
      BY <1>1, <2>1, PcMoves DEF At, DialSteps
    <2>4. Cardinality(At(DialSteps)') = Cardinality(At(DialSteps)) + 1
      BY <2>3, PoolNumbers, FS_AddElement
    <2>5. PoolTypes'
      BY <1>1, <1>2, <1>4, <2>1, PcMoves DEF IPool, PoolTypes, Step, HoldSteps
    <2>6. InvOwner'
      BY <1>2, <1>4 DEF IPool, InvOwner, Idle
    <2>7. InvPool'
      BY <1>1, <1>2, <1>4, <2>2, <2>4, EmptyPoolHasRoom, PoolNumbers DEF IPool, InvPool
    <2> QED
      BY <1>3, <2>5, <2>6, <2>7 DEF IPool
  <1>5. CASE /\ idleConns # <<>> /\ cn' = [cn EXCEPT ![c] = idleConns[Len(idleConns)]]
             /\ idleConns' = idleRest /\ Goto(c, "check")
    <2>1. pc' = [pc EXCEPT ![c] = "check"]
      BY <1>5 DEF Goto
    <2>2. At(TurnSteps)' = At(TurnSteps) /\ At(DialSteps)' = At(DialSteps)
      BY <1>1, <2>1, PcMoves DEF At, TurnSteps, HoldSteps, DialSteps
    <2>3. /\ idleConns' \in Seq(conns) /\ idleConns[Len(idleConns)] \in conns
          /\ InvOwner'
      BY <1>1, <1>2, <1>5, PopKeepsOwner DEF IPool
    <2>4. cn'[c] \in conns /\ cn' \in [Cmds -> Conns \cup {None}] /\ \A d \in Cmds \ {c} : cn'[d] = cn[d]
      BY <1>1, <1>5, <2>3 DEF IPool, PoolTypes
    <2>5. PoolTypes'
      <3>1. cn'[c] # None /\ pc'[c] \in HoldSteps /\ pc' \in [Cmds -> Step]
        BY <1>1, <2>1, <2>4, NamesAssumption DEF IPool, PoolTypes, Step, HoldSteps
      <3>2. \A d \in Cmds : pc'[d] \in HoldSteps <=> cn'[d] # None
        BY <1>1, <2>1, <2>4, <3>1, PcMoves DEF IPool, PoolTypes
      <3> QED
        BY <1>2, <2>3, <2>4, <3>1, <3>2 DEF IPool, PoolTypes
    <2>6. InvPool'
      BY <1>2, <2>2 DEF IPool, InvPool
    <2> QED
      BY <1>3, <2>3, <2>5, <2>6 DEF IPool
  <1> QED
    BY <1>4, <1>5 DEF popIdle

(* A goroutine gives up the connection it holds, and the pool forgets it. *)
LEMMA RemoveKeepsPool ==
  ASSUME IPool, NEW c \in Cmds, NEW t \in {"pop", "free"}, pc' = [pc EXCEPT ![c] = t],
         pc[c] \in HoldSteps, removeConn(cn[c]), cn' = [cn EXCEPT ![c] = None],
         UNCHANGED <<queue, idleConns, dialErrorsNum, tryDials>>
  PROVE  IPool'
  <1> DEFINE k == cn[c]
  <1>1. /\ pc \in [Cmds -> Step] /\ cn \in [Cmds -> Conns \cup {None}] /\ k # None
        /\ conns \subseteq Conns /\ idleConns \in Seq(conns)
    BY DEF IPool, PoolTypes
  <1>2. k \in conns /\ k \notin Idle /\ pooled = conns
    BY <1>1 DEF IPool, InvOwner, InvPool
  <1>3. conns' = conns \ {k} /\ pooled' = conns \ {k} /\ poolSize' = poolSize - 1
    BY <1>2 DEF removeConn
  <1>4. cn'[c] = None /\ \A d \in Cmds \ {c} : cn'[d] = cn[d] /\ cn[d] # k
    BY <1>1, <1>2 DEF IPool, InvOwner
  <1> HIDE DEF k
  <1>5. At(TurnSteps)' = At(TurnSteps) /\ At(DialSteps)' = At(DialSteps)
    BY <1>1, PcMoves DEF At, TurnSteps, HoldSteps, DialSteps
  <1>6. IsFiniteSet(conns') /\ Cardinality(conns') = Cardinality(conns) - 1
    BY <1>2, <1>3, FS_RemoveElement DEF IPool, InvPool
  <1>7. poolSize' \in Nat /\ poolSize' <= poolSize /\ poolSize' = Cardinality(conns')
    BY <1>3, <1>6, FS_CardinalityType, PoolNumbers DEF IPool, InvPool
  <1>8. idleConns' \in Seq(conns')
    <2>1. \A i \in 1..Len(idleConns) : idleConns[i] \in conns'
      BY <1>1, <1>2, <1>3 DEF Idle
    <2> QED
      BY <1>1, <2>1
  <1>9. PoolTypes'
    <2>1. queue' \in 0..PoolSize /\ poolSize' \in 0..PoolSize /\ dialErrorsNum' \in Nat /\ tryDials' \in Nat
      BY <1>7, PoolNumbers DEF IPool, PoolTypes
    <2>2. pc' \in [Cmds -> Step] /\ cn' \in [Cmds -> Conns \cup {None}]
      BY <1>1 DEF Step
    <2>3. \A d \in Cmds : pc'[d] \in HoldSteps <=> cn'[d] # None
      BY <1>1, <1>4, PcMoves DEF IPool, PoolTypes, HoldSteps
    <2> QED
      BY <1>1, <1>3, <1>8, <2>1, <2>2, <2>3 DEF PoolTypes
  <1>10. InvOwner'
    <2>1. Idle' = Idle
      BY DEF Idle
    <2> QED
      BY <1>1, <1>2, <1>3, <1>4, <2>1 DEF IPool, InvOwner
  <1>11. InvPool'
    BY <1>3, <1>5, <1>6, <1>7, PoolNumbers DEF IPool, InvPool
  <1>12. GateHasDialer'
    BY DEF IPool, GateHasDialer
  <1> QED
    BY <1>9, <1>10, <1>11, <1>12 DEF IPool

(* A new connection has an identity nobody uses, and room in the pool. *)
LEMMA NewConnKeepsPool ==
  ASSUME IPool, NEW c \in Cmds, newConn(c)
  PROVE  IPool'
  <1> DEFINE k == CHOOSE k \in Conns : k \notin conns
  <1>1. /\ pc \in [Cmds -> Step] /\ cn \in [Cmds -> Conns \cup {None}] /\ pc[c] = "dial"
        /\ conns \subseteq Conns /\ idleConns \in Seq(conns) /\ pc' = [pc EXCEPT ![c] = "init"]
    BY DEF IPool, PoolTypes, newConn, Goto
  <1>2. k \in Conns /\ k \notin conns /\ k # None
    BY NamesAssumption DEF newConn
  <1>3. c \in At(DialSteps) /\ At(DialSteps)' = At(DialSteps) \ {c} /\ At(TurnSteps)' = At(TurnSteps)
    BY <1>1, PcMoves DEF At, TurnSteps, HoldSteps, DialSteps
  <1>4. Cardinality(At(DialSteps)') = Cardinality(At(DialSteps)) - 1 /\ Cardinality(At(DialSteps)') \in Nat
    BY <1>3, PoolNumbers, FS_RemoveElement, FS_CardinalityType
  <1>5. poolSize < PoolSize
    BY <1>4, PoolNumbers DEF IPool, InvPool
  <1>6. /\ conns' = conns \cup {k} /\ cn' = [cn EXCEPT ![c] = k]
        /\ pooled' = pooled \cup {k} /\ poolSize' = poolSize + 1
        /\ UNCHANGED <<queue, idleConns, dialErrorsNum, tryDials>>
    BY <1>5, PoolNumbers DEF newConn, dialVars
  <1> HIDE DEF k
  <1>7. cn'[c] = k /\ \A d \in Cmds \ {c} : cn'[d] = cn[d] /\ cn[d] # k
    BY <1>1, <1>2, <1>6 DEF IPool, InvOwner
  <1>8. IsFiniteSet(conns') /\ Cardinality(conns') = Cardinality(conns) + 1
    BY <1>2, <1>6, FS_AddElement DEF IPool, InvPool
  <1>9. idleConns' \in Seq(conns') /\ \A i \in 1..Len(idleConns) : idleConns[i] # k
    <2>1. \A i \in 1..Len(idleConns) : idleConns[i] \in conns
      BY <1>1
    <2> QED
      BY <1>1, <1>2, <1>6, <2>1
  <1>10. PoolTypes'
    <2>1. queue' \in 0..PoolSize /\ poolSize' \in 0..PoolSize /\ dialErrorsNum' \in Nat /\ tryDials' \in Nat
      BY <1>5, <1>6, PoolNumbers DEF IPool, PoolTypes
    <2>2. pc' \in [Cmds -> Step] /\ cn' \in [Cmds -> Conns \cup {None}] /\ conns' \subseteq Conns
      BY <1>1, <1>2, <1>6 DEF Step
    <2>3. \A d \in Cmds : pc'[d] \in HoldSteps <=> cn'[d] # None
      BY <1>1, <1>2, <1>7, PcMoves DEF IPool, PoolTypes, HoldSteps
    <2> QED
      BY <1>9, <2>1, <2>2, <2>3 DEF PoolTypes
  <1>11. InvOwner'
    <2>1. Idle' = Idle /\ k \notin Idle
      BY <1>6, <1>9 DEF Idle
    <2>2. cn[c] = None
      BY <1>1 DEF IPool, PoolTypes, HoldSteps
    <2> QED
      BY <1>1, <1>2, <1>6, <1>7, <2>1, <2>2, NamesAssumption DEF IPool, InvOwner
  <1>12. InvPool'
    BY <1>3, <1>4, <1>6, <1>8, PoolNumbers DEF IPool, InvPool
  <1>13. GateHasDialer'
    BY <1>6 DEF IPool, GateHasDialer
  <1> QED
    BY <1>10, <1>11, <1>12, <1>13 DEF IPool

(* Put: the connection goes back to the list. *)
LEMMA PutKeepsPool ==
  ASSUME IPool, NEW c \in Cmds, pc[c] = "release", pc' = [pc EXCEPT ![c] = "free"],
         idleConns' = Append(idleConns, cn[c]), cn' = [cn EXCEPT ![c] = None],
         UNCHANGED <<queue, conns, pooled, poolSize, dialErrorsNum, tryDials>>
  PROVE  IPool'
  <1> DEFINE k == cn[c]
             n == Len(idleConns)
  <1>1. /\ pc \in [Cmds -> Step] /\ cn \in [Cmds -> Conns \cup {None}] /\ k # None
        /\ conns \subseteq Conns /\ idleConns \in Seq(conns) /\ n \in Nat
    BY DEF IPool, PoolTypes, HoldSteps
  <1>2. k \in conns /\ k \notin Idle
    BY <1>1 DEF IPool, InvOwner
  <1>3. cn'[c] = None /\ \A d \in Cmds \ {c} : cn'[d] = cn[d] /\ cn[d] # k
    BY <1>1, <1>2 DEF IPool, InvOwner
  <1> HIDE DEF k
  <1>4. idleConns' = Append(idleConns, k)
    BY DEF k
  <1>5. idleConns' \in Seq(conns') /\ Len(idleConns') = n + 1 /\ idleConns'[n + 1] = k
        /\ \A i \in 1..n : idleConns'[i] = idleConns[i]
    BY <1>1, <1>2, <1>4, AppendProperties
  <1>6. At(TurnSteps)' = At(TurnSteps) /\ At(DialSteps)' = At(DialSteps)
    BY <1>1, PcMoves DEF At, TurnSteps, HoldSteps, DialSteps
  <1>7. \A i \in 1..n : idleConns[i] # k
    BY <1>2 DEF Idle
  <1>8. \A i, j \in 1..n : idleConns[i] = idleConns[j] => i = j
    BY DEF IPool, InvOwner
  <1>9. Idle = {idleConns[i] : i \in 1..n}
    BY DEF Idle
  <1> HIDE DEF n
  <1>10. Idle' = Idle \cup {k}
    BY <1>1, <1>5, <1>9 DEF Idle
  <1>11. PoolTypes'
    <2>1. pc' \in [Cmds -> Step] /\ cn' \in [Cmds -> Conns \cup {None}]
      BY <1>1 DEF Step
    <2>2. \A d \in Cmds : pc'[d] \in HoldSteps <=> cn'[d] # None
      BY <1>1, <1>3, PcMoves DEF IPool, PoolTypes, HoldSteps
    <2> QED
      BY <1>5, <2>1, <2>2 DEF IPool, PoolTypes
  <1>12. InvOwner'
    <2>1. \A i, j \in 1..Len(idleConns') : idleConns'[i] = idleConns'[j] => i = j
      BY <1>1, <1>5, <1>7, <1>8
    <2>2. \A m \in conns : m \in Idle' \/ \E d \in Cmds : cn'[d] = m
      <3>1. cn[c] = k
        BY DEF k
      <3> QED
        BY <1>3, <1>10, <3>1 DEF IPool, InvOwner
    <2> QED
      BY <1>2, <1>3, <1>10, <2>1, <2>2 DEF IPool, InvOwner
  <1>13. InvPool'
    BY <1>6 DEF IPool, InvPool
  <1>14. GateHasDialer'
    BY DEF IPool, GateHasDialer
  <1> QED
    BY <1>11, <1>12, <1>13, <1>14 DEF IPool

(* A connection put back, or removed, has no owner any more. *)
LEMMA ReleaseKeepsPool ==
  ASSUME IPool, NEW c \in Cmds, releaseConn(c)
  PROVE  IPool'
  <1>1. /\ pc[c] = "release" /\ pc' = [pc EXCEPT ![c] = "free"] /\ cn' = [cn EXCEPT ![c] = None]
        /\ UNCHANGED <<queue, dialErrorsNum, tryDials>>
    BY DEF releaseConn, Goto, dialVars
  <1>2. \/ removeConn(cn[c]) /\ UNCHANGED idleConns
        \/ idleConns' = Append(idleConns, cn[c]) /\ UNCHANGED <<conns, pooled, poolSize>>
    BY DEF releaseConn
  <1>3. CASE removeConn(cn[c]) /\ UNCHANGED idleConns
    BY <1>1, <1>3, RemoveKeepsPool DEF HoldSteps
  <1>4. CASE idleConns' = Append(idleConns, cn[c]) /\ UNCHANGED <<conns, pooled, poolSize>>
    BY <1>1, <1>4, PutKeepsPool
  <1> QED
    BY <1>2, <1>3, <1>4

(* Nor has one that is closed. *)
LEMMA CloseKeepsPool ==
  ASSUME IPool, NEW c \in Cmds, CloseConn(c) \/ initConnFails(c)
  PROVE  IPool'
  <1>1. /\ pc[c] \in HoldSteps /\ removeConn(cn[c]) /\ cn' = [cn EXCEPT ![c] = None]
        /\ UNCHANGED <<queue, idleConns, dialErrorsNum, tryDials>>
    BY DEF CloseConn, initConnFails, dialVars, HoldSteps
  <1>2. PICK t \in {"pop", "free"} : pc' = [pc EXCEPT ![c] = t]
    BY DEF CloseConn, initConnFails, Goto, Ends
  <1> QED
    BY <1>1, <1>2, RemoveKeepsPool

(* Every step keeps the invariant of the pool. *)
LEMMA PoolStep == IPool /\ [Next]_vars => IPool'
  <1> SUFFICES ASSUME IPool, [Next]_vars PROVE IPool'
    OBVIOUS
  <1>1. ASSUME NEW c \in Cmds, process(c) \/ _process(c) PROVE IPool'
    BY <1>1, PlainStepKeepsPool, WaitTurnKeepsPool, PopIdleKeepsPool, CloseKeepsPool,
       NewConnKeepsPool, DialFailsKeepsPool, ReleaseKeepsPool, FreeTurnKeepsPool DEF _process
  <1>2. ASSUME NEW c \in Cmds, Cancel(c) \/ ExecuteStray(c) PROVE IPool'
    <2>1. UNCHANGED <<poolVars, pc, cn>> /\ UNCHANGED dialVars
      BY <1>2 DEF Cancel, ExecuteStray, cmdVars
    <2> QED
      BY <2>1, OutsideKeepsPool
  <1>3. ASSUME NEW k \in Conns, Execute(k) PROVE IPool'
    <2>1. UNCHANGED <<poolVars, pc, cn>> /\ UNCHANGED dialVars
      BY <1>3 DEF Execute, cmdVars
    <2> QED
      BY <2>1, OutsideKeepsPool
  <1>4. CASE RedisDown \/ RedisBack \/ tryDial \/ UNCHANGED vars
    <2>1. UNCHANGED <<poolVars, pc, cn>> /\ (UNCHANGED dialVars \/ tryDial)
      BY <1>4 DEF RedisDown, RedisBack, tryDial, vars, cmdVars
    <2> QED
      BY <2>1, OutsideKeepsPool
  <1> QED
    BY <1>1, <1>2, <1>3, <1>4 DEF Next

(* It holds throughout. *)
LEMMA PoolInvariant == Spec => []IPool
  BY PoolInit, PoolStep, PTL DEF Spec

-----------------------------------------------------------------------------
(* One socket has one user: whatever popIdle, Put, Remove, CloseConn and   *)
(* newConn of different goroutines do, a connection of the pool is in the  *)
(* idle list once or held by one command, never both.                      *)
THEOREM ConnectionHasOneOwner == Spec => []OneOwner
  <1>1. ASSUME IPool PROVE OneOwner
    <2> SUFFICES ASSUME NEW k \in conns
                 PROVE  Cardinality({i \in 1..Len(idleConns) : idleConns[i] = k})
                          + Cardinality({c \in Cmds : cn[c] = k}) = 1
      BY DEF OneOwner
    <2> DEFINE I == {i \in 1..Len(idleConns) : idleConns[i] = k}
               C == {c \in Cmds : cn[c] = k}
    <2>1. k # None
      BY <1>1, NamesAssumption DEF IPool, PoolTypes
    <2>2. CASE k \in Idle
      <3>1. PICK j \in 1..Len(idleConns) : idleConns[j] = k
        BY <2>2 DEF Idle
      <3>2. I = {j}
        BY <1>1, <3>1 DEF IPool, InvOwner
      <3>3. C = {}
        BY <1>1, <2>1, <2>2 DEF IPool, InvOwner
      <3> HIDE DEF I, C
      <3>4. Cardinality(I) = 1 /\ Cardinality(C) = 0
        BY <3>2, <3>3, FS_Singleton, FS_EmptySet
      <3> QED
        BY <3>4 DEF I, C
    <2>3. CASE k \notin Idle
      <3>1. PICK c \in Cmds : cn[c] = k
        BY <1>1, <2>3 DEF IPool, InvOwner
      <3>2. C = {c}
        BY <1>1, <2>1, <3>1 DEF IPool, InvOwner
      <3>3. I = {}
        BY <2>3 DEF Idle
      <3> HIDE DEF I, C
      <3>4. Cardinality(I) = 0 /\ Cardinality(C) = 1
        BY <3>2, <3>3, FS_Singleton, FS_EmptySet
      <3> QED
        BY <3>4 DEF I, C
    <2> QED
      BY <2>2, <2>3
  <1> QED
    BY <1>1, PoolInvariant, PTL

(* No more connections than PoolSize are ever open, and the counters that  *)
(* the pool decides by are the true ones: a goroutine that finds the idle  *)
(* list empty may dial because every open connection is held by another    *)
(* goroutine with a turn.                                                  *)
THEOREM PoolIsBounded == Spec => []PoolBounded
  <1>1. ASSUME IPool PROVE PoolBounded
    <2>1. {c \in Cmds : HasTurn(c)} = At(TurnSteps)
      BY DEF At, HasTurn, Holding, TurnSteps, HoldSteps
    <2>2. {c \in Cmds : pc[c] \in {"gate", "dial"}} = At(DialSteps)
      BY DEF At, DialSteps
    <2> QED
      BY <1>1, <2>1, <2>2 DEF IPool, InvPool, PoolBounded
  <1> QED
    BY <1>1, PoolInvariant, PTL

(* When dialErrorsNum has closed the gate of dialConn a tryDial goroutine  *)
(* runs that will open it again.                                           *)
THEOREM ClosedGateHasDialer == Spec => []GateHasDialer
  <1>1. IPool => GateHasDialer
    BY DEF IPool
  <1> QED
    BY <1>1, PoolInvariant, PTL

-----------------------------------------------------------------------------
(* The types of what remains. *)

(* A command that waits for its next attempt has one left. *)
InvRetry == \A c \in Cmds : pc[c] = "backoff" => attempt[c] < MaxRetries /\ err[c] \in {"retry", "bad"}

(* The rest of TypeOK. *)
CmdTypes ==
  /\ err \in [Cmds -> Outcome] /\ attempt \in [Cmds -> 0..MaxRetries]
  /\ cancelled \subseteq Cmds /\ up \in BOOLEAN /\ faults \in 0..MaxFaults

WireTypes ==
  /\ broken \subseteq conns /\ skewed \subseteq conns
  /\ overdue \subseteq Cmds /\ misled \subseteq Cmds
  /\ sent \in [Conns -> Seq(Cmds \cup {Info})]
  /\ arrived \in [Conns -> Seq(Reply)] /\ rd \in [Conns -> Seq(Reply)]
  /\ strays \in [Cmds -> Nat] /\ executed \in [Cmds -> Nat]

IType == IPool /\ CmdTypes /\ InvRetry /\ WireTypes

(* Initially no command has begun and the wire is empty. *)
LEMMA TypesInit == Init => CmdTypes /\ InvRetry /\ WireTypes
  <1> SUFFICES ASSUME Init PROVE CmdTypes /\ InvRetry /\ WireTypes
    OBVIOUS
  <1>1. faults \in 0..MaxFaults /\ 0 \in 0..MaxRetries
    BY SizeAssumption DEF Init
  <1>2. up \in BOOLEAN
    BY DEF Init
  <1>3. CmdTypes
    BY <1>1, <1>2 DEF Init, CmdTypes, Outcome
  <1>4. \A S : <<>> \in Seq(S)
    OBVIOUS
  <1>5. WireTypes
    BY <1>4 DEF Init, WireTypes
  <1> QED
    BY <1>3, <1>5 DEF Init, InvRetry

(* The connection a command works on is open. *)
LEMMA HeldIsOpen ==
  ASSUME IPool, NEW c \in Cmds, pc[c] \in HoldSteps
  PROVE  cn[c] # None /\ cn[c] \in conns /\ cn[c] \in Conns
  BY DEF IPool, PoolTypes, InvOwner

(* The retry loop. *)
LEMMA CmdTypesStep ==
  ASSUME IPool, CmdTypes, WireTypes, InvRetry, Next
  PROVE  CmdTypes' /\ InvRetry'
  <1>0. pc \in [Cmds -> Step]
    BY DEF IPool, PoolTypes
  <1> USE SizeAssumption DEF Goto, Ends
  <1>1. ASSUME NEW c \in Cmds, retryBackoff(c) PROVE CmdTypes' /\ InvRetry'
    BY <1>0, <1>1 DEF CmdTypes, InvRetry, retryBackoff, Outcome, envVars
  <1>2. ASSUME NEW c \in Cmds, freeTurn(c) PROVE CmdTypes' /\ InvRetry'
    BY <1>0, <1>2 DEF CmdTypes, InvRetry, freeTurn, envVars
  <1>3. ASSUME NEW c \in Cmds, NEW t \in Step, NEW e \in Outcome,
               pc' = [pc EXCEPT ![c] = t], err' = [err EXCEPT ![c] = e],
               t # "backoff", UNCHANGED <<attempt, cancelled, up, faults>>
        PROVE  CmdTypes' /\ InvRetry'
    BY <1>0, <1>3 DEF CmdTypes, InvRetry
  <1>4. ASSUME NEW c \in Cmds, NEW t \in Step, pc' = [pc EXCEPT ![c] = t], t # "backoff",
               UNCHANGED <<err, attempt, cancelled, up>>, faults' \in 0..MaxFaults
        PROVE  CmdTypes' /\ InvRetry'
    BY <1>0, <1>4 DEF CmdTypes, InvRetry
  <1>5. ASSUME UNCHANGED <<pc, err, attempt>>, cancelled' \subseteq Cmds, up' \in BOOLEAN, faults' \in 0..MaxFaults
        PROVE  CmdTypes' /\ InvRetry'
    BY <1>5 DEF CmdTypes, InvRetry
  <1>6. ASSUME Fault PROVE faults' \in 0..MaxFaults
    BY <1>6 DEF Fault, CmdTypes
  <1>7. UNCHANGED faults => faults' \in 0..MaxFaults
    BY DEF CmdTypes
  <1>8. ASSUME NEW c \in Cmds, _process(c) PROVE CmdTypes' /\ InvRetry'
    <2> USE DEF envVars, Step, Outcome
    <2>1. CASE \/ waitTurn(c) \/ popIdle(c) \/ isHealthyConn(c) \/ CloseConn(c) \/ newConn(c)
               \/ initConn(c) \/ writeCmd(c) \/ releaseConn(c)
      <3>1. PICK t \in Step : pc' = [pc EXCEPT ![c] = t] /\ t # "backoff"
        BY <2>1 DEF waitTurn, popIdle, isHealthyConn, CloseConn, newConn, initConn, writeCmd, releaseConn
      <3>2. UNCHANGED <<err, attempt, cancelled, up, faults>>
        BY <2>1 DEF waitTurn, popIdle, isHealthyConn, CloseConn, newConn, initConn, writeCmd, releaseConn
      <3> QED
        BY <1>4, <1>7, <3>1, <3>2
    <2>2. CASE initConnSkewed(c)
      BY <1>4, <1>6, <2>2 DEF initConnSkewed
    <2>3. CASE waitTurnFails(c) \/ dialConnFails(c) \/ initConnFails(c)
      BY <1>3, <2>3 DEF waitTurnFails, dialConnFails, initConnFails
    <2>4. CASE ioFails(c) \/ readTimeout(c)
      BY <1>3, <2>4 DEF ioFails, readTimeout
    <2>5. CASE readReply(c)
      <3>1. PICK r \in Reply : pc' = [pc EXCEPT ![c] = "release"] /\ err' = [err EXCEPT ![c] = r.means]
        <4> DEFINE k == cn[c]
                   all == IF rd[k] # <<>> THEN rd[k] ELSE arrived[k]
        <4>1. k \in Conns
          BY <2>5, HeldIsOpen DEF readReply, HoldSteps
        <4>2. all \in Seq(Reply)
          BY <4>1 DEF WireTypes
        <4>3. all # <<>> /\ pc' = [pc EXCEPT ![c] = "release"] /\ err' = [err EXCEPT ![c] = Head(all).means]
          BY <2>5 DEF readReply
        <4> HIDE DEF all
        <4>4. Head(all) \in Reply
          BY <4>2, <4>3
        <4> QED
          BY <4>3, <4>4
      <3>2. r.means \in Outcome
        BY DEF Reply
      <3> QED
        BY <1>3, <2>5, <3>1, <3>2 DEF readReply
    <2>6. CASE dialGate(c)
      <3>1. UNCHANGED <<attempt, cancelled, up, faults>>
        BY <2>6 DEF dialGate
      <3>2. CASE Goto(c, "dial") /\ UNCHANGED err
        BY <1>4, <1>7, <3>1, <3>2
      <3>3. CASE \E e \in {"retry", "final"} : Ends(c, "free", e)
        BY <1>3, <3>1, <3>3
      <3> QED
        BY <2>6, <3>2, <3>3 DEF dialGate
    <2> QED
      BY <1>1, <1>2, <1>8, <2>1, <2>2, <2>3, <2>4, <2>5, <2>6 DEF _process
  <1>9. ASSUME NEW c \in Cmds, process(c) \/ Cancel(c) \/ ExecuteStray(c) PROVE CmdTypes' /\ InvRetry'
    <2>1. CASE process(c)
      BY <1>4, <1>7, <2>1 DEF process, envVars, Step
    <2>2. CASE Cancel(c)
      BY <1>5, <1>6, <2>2 DEF Cancel, CmdTypes
    <2>3. CASE ExecuteStray(c)
      BY <1>5, <1>7, <2>3 DEF ExecuteStray, cmdVars, CmdTypes
    <2> QED
      BY <1>9, <2>1, <2>2, <2>3
  <1>10. ASSUME NEW k \in Conns, Execute(k) PROVE CmdTypes' /\ InvRetry'
    BY <1>5, <1>7, <1>10 DEF Execute, cmdVars, CmdTypes
  <1>11. CASE tryDial \/ RedisDown \/ RedisBack
    <2>1. UNCHANGED <<pc, err, attempt, cancelled>> /\ faults' \in 0..MaxFaults
      BY <1>6, <1>7, <1>11 DEF tryDial, RedisDown, RedisBack, cmdVars, envVars
    <2>2. up' \in BOOLEAN
      BY <1>11, Zenon DEF tryDial, RedisDown, RedisBack, envVars, CmdTypes
    <2> QED
      BY <1>5, <2>1, <2>2 DEF CmdTypes
  <1> QED
    BY <1>8, <1>9, <1>10, <1>11 DEF Next

(* What a connection carries of a command can be counted. *)
LEMMA CopiesFinite ==
  ASSUME WireTypes, NEW k \in Conns, NEW c
  PROVE  IsFiniteSet(Copies(k, c)) /\ Cardinality(Copies(k, c)) \in Nat
  <1>1. Len(sent[k]) \in Nat
    BY DEF WireTypes
  <1>2. IsFiniteSet(1..Len(sent[k]))
    BY <1>1, FS_Interval
  <1>3. Copies(k, c) \subseteq 1..Len(sent[k])
    BY DEF Copies
  <1> QED
    BY <1>2, <1>3, SubsetCard

(* Closing a connection strays a natural number of copies. *)
LEMMA ClosedTypes ==
  ASSUME WireTypes, conns \subseteq Conns, NEW k \in Conns, Closed(k), conns' = conns \ {k}, UNCHANGED <<overdue, misled>>
  PROVE  WireTypes'
  <1>1. strays' \in [Cmds -> Nat]
    <2>1. \A c \in Cmds : Cardinality(Copies(k, c)) \in Nat
      BY CopiesFinite
    <2> HIDE DEF Copies
    <2> QED
      BY <2>1 DEF WireTypes, Closed
  <1>2. \A S : <<>> \in Seq(S)
    OBVIOUS
  <1>3. sent' \in [Conns -> Seq(Cmds \cup {Info})] /\ arrived' \in [Conns -> Seq(Reply)] /\ rd' \in [Conns -> Seq(Reply)]
    BY <1>2 DEF WireTypes, Closed
  <1>4. broken' \subseteq conns' /\ skewed' \subseteq conns' /\ UNCHANGED executed
    BY DEF WireTypes, Closed
  <1> QED
    BY <1>1, <1>3, <1>4 DEF WireTypes

(* Every step keeps the types of the wire. *)
LEMMA WireTypesStep ==
  ASSUME IPool, WireTypes, Next
  PROVE  WireTypes'
  <1>0. conns \subseteq Conns
    BY DEF IPool, PoolTypes
  <1>1. ASSUME NEW c \in Cmds, CloseConn(c) \/ initConnFails(c) PROVE WireTypes'
    <2>1. pc[c] \in HoldSteps /\ Closed(cn[c]) /\ conns' = conns \ {cn[c]} /\ UNCHANGED <<overdue, misled>>
      BY <1>1 DEF CloseConn, initConnFails, removeConn, HoldSteps
    <2> QED
      BY <1>0, <2>1, HeldIsOpen, ClosedTypes
  <1>2. ASSUME NEW c \in Cmds, releaseConn(c) PROVE WireTypes'
    <2>1. pc[c] \in HoldSteps /\ UNCHANGED <<overdue, misled>>
      BY <1>2 DEF releaseConn, HoldSteps
    <2>2. CASE Closed(cn[c]) /\ conns' = conns \ {cn[c]}
      BY <1>0, <2>1, <2>2, HeldIsOpen, ClosedTypes
    <2>3. CASE UNCHANGED <<conns, wireVars, skewed>>
      BY <2>1, <2>3 DEF WireTypes, wireVars
    <2> QED
      BY <1>2, <2>2, <2>3 DEF releaseConn, removeConn
  <1>3. ASSUME NEW c \in Cmds, newConn(c) PROVE WireTypes'
    <2>1. conns \subseteq conns' /\ UNCHANGED <<wireVars, histVars>>
      BY <1>3 DEF newConn, envVars
    <2> QED
      BY <2>1 DEF WireTypes, wireVars, histVars
  <1>4. ASSUME NEW c \in Cmds, initConnSkewed(c) PROVE WireTypes'
    <2>1. pc[c] \in HoldSteps /\ skewed' = skewed \cup {cn[c]}
          /\ UNCHANGED <<conns, broken, arrived, rd, strays, executed, overdue, misled>>
      BY <1>4 DEF initConnSkewed, HoldSteps, poolVars, heldVars
    <2>2. <<Info>> \in Seq(Cmds \cup {Info}) /\ <<Info, Info>> \in Seq(Cmds \cup {Info})
      OBVIOUS
    <2>3. sent' \in [Conns -> Seq(Cmds \cup {Info})]
      BY <1>4, <2>2 DEF initConnSkewed, WireTypes
    <2> QED
      BY <2>1, <2>3, HeldIsOpen DEF WireTypes
  <1>5. ASSUME NEW c \in Cmds, writeCmd(c) PROVE WireTypes'
    <2>1. pc[c] \in HoldSteps /\ misled' \subseteq Cmds
          /\ UNCHANGED <<conns, broken, arrived, rd, strays, executed, overdue, skewed>>
      BY <1>5 DEF writeCmd, HoldSteps, poolVars, heldVars, WireTypes
    <2>2. sent' = [sent EXCEPT ![cn[c]] = Append(sent[cn[c]], c)]
      BY <1>5 DEF writeCmd
    <2>3. Append(sent[cn[c]], c) \in Seq(Cmds \cup {Info})
      BY <2>1, HeldIsOpen DEF WireTypes
    <2>4. sent' \in [Conns -> Seq(Cmds \cup {Info})]
      BY <2>2, <2>3 DEF WireTypes
    <2> QED
      BY <2>1, <2>4 DEF WireTypes
  <1>6. ASSUME NEW c \in Cmds, readReply(c) PROVE WireTypes'
    <2> DEFINE k == cn[c]
               all == IF rd[k] # <<>> THEN rd[k] ELSE arrived[k]
    <2>1. pc[c] \in HoldSteps /\ UNCHANGED <<conns, broken, sent, strays, executed, overdue, skewed, misled>>
      BY <1>6 DEF readReply, HoldSteps, poolVars, heldVars, histVars
    <2>2. all \in Seq(Reply) /\ all # <<>> /\ <<>> \in Seq(Reply)
      BY <1>6, <2>1, HeldIsOpen DEF readReply, WireTypes
    <2>3. rd' = [rd EXCEPT ![k] = Tail(all)] /\ (arrived' = arrived \/ arrived' = [arrived EXCEPT ![k] = <<>>])
      BY <1>6 DEF readReply
    <2> HIDE DEF k, all
    <2>4. Tail(all) \in Seq(Reply)
      BY <2>2
    <2>5. rd' \in [Conns -> Seq(Reply)] /\ arrived' \in [Conns -> Seq(Reply)]
      BY <2>2, <2>3, <2>4 DEF WireTypes
    <2> QED
      BY <2>1, <2>5 DEF WireTypes
  <1>7. ASSUME NEW c \in Cmds, readTimeout(c) PROVE WireTypes'
    BY <1>7 DEF readTimeout, WireTypes, wireVars, poolVars, heldVars
  <1>8. ASSUME NEW k \in Conns, Execute(k) PROVE WireTypes'
    <2>1. sent[k] \in Seq(Cmds \cup {Info}) /\ sent[k] # <<>>
          /\ UNCHANGED <<conns, broken, rd, strays, overdue, skewed, misled>>
      BY <1>8 DEF Execute, WireTypes, poolVars, heldVars, histVars
    <2>2. PICK r \in Reply : arrived' = [arrived EXCEPT ![k] = Append(arrived[k], r)]
                          /\ executed' = [c \in Cmds |-> executed[c] + IF c = r.of /\ r.means = "ok" THEN 1 ELSE 0]
      BY <1>8 DEF Execute
    <2>3. sent' = [sent EXCEPT ![k] = Tail(sent[k])]
      BY <1>8 DEF Execute
    <2>4. Tail(sent[k]) \in Seq(Cmds \cup {Info})
      BY <2>1
    <2>5. Append(arrived[k], r) \in Seq(Reply)
      BY DEF WireTypes
    <2>6. executed' \in [Cmds -> Nat]
      BY <2>2 DEF WireTypes
    <2>7. sent' \in [Conns -> Seq(Cmds \cup {Info})]
      BY <2>3, <2>4 DEF WireTypes
    <2>8. arrived' \in [Conns -> Seq(Reply)]
      BY <2>2, <2>5 DEF WireTypes
    <2> QED
      BY <2>1, <2>6, <2>7, <2>8 DEF WireTypes
  <1>9. ASSUME NEW c \in Cmds, ExecuteStray(c) PROVE WireTypes'
    BY <1>9 DEF ExecuteStray, WireTypes, poolVars, heldVars, histVars
  <1>10. CASE RedisDown
    <2>1. <<>> \in Seq(Cmds \cup {Info})
      OBVIOUS
    <2> QED
      BY <1>10, <2>1 DEF RedisDown, WireTypes, poolVars, heldVars, histVars
  <1>11. CASE UNCHANGED <<conns, wireVars, histVars>>
    BY <1>11 DEF WireTypes, wireVars, histVars
  <1> QED
    <2>1. ASSUME NEW c \in Cmds, \/ process(c) \/ Cancel(c) \/ waitTurn(c) \/ waitTurnFails(c) \/ popIdle(c)
                 \/ isHealthyConn(c) \/ dialGate(c) \/ dialConnFails(c) \/ initConn(c) \/ ioFails(c) \/ freeTurn(c) \/ retryBackoff(c)
          PROVE  UNCHANGED <<conns, wireVars, histVars>>
      BY <2>1 DEF process, Cancel, waitTurn, waitTurnFails, popIdle, isHealthyConn, dialGate, dialConnFails, initConn,
                  ioFails, freeTurn, retryBackoff, envVars, poolVars, heldVars
    <2>2. tryDial \/ RedisBack => UNCHANGED <<conns, wireVars, histVars>>
      BY DEF tryDial, RedisBack, envVars, poolVars, heldVars
    <2> QED
      BY <1>1, <1>2, <1>3, <1>4, <1>5, <1>6, <1>7, <1>8, <1>9, <1>10, <1>11, <2>1, <2>2 DEF Next, _process

(* The types hold throughout. *)
LEMMA TypesInvariant == Spec => []IType
  <1>1. Init => IType
    BY PoolInit, TypesInit DEF IType
  <1>2. ASSUME IType, [Next]_vars PROVE IType'
    <2>1. IPool'
      BY <1>2, PoolStep DEF IType
    <2>2. CASE Next
      BY <1>2, <2>1, <2>2, CmdTypesStep, WireTypesStep DEF IType
    <2>3. CASE UNCHANGED vars
      BY <1>2, <2>1, <2>3 DEF IType, CmdTypes, InvRetry, WireTypes, vars, poolVars, heldVars, cmdVars,
                             envVars, wireVars, histVars
    <2> QED
      BY <1>2, <2>2, <2>3
  <1> QED
    BY <1>1, <1>2, PTL DEF Spec

(* Every variable keeps its type; attempt never passes MaxRetries because  *)
(* process backs off only while it has an attempt left.                    *)
THEOREM TypeCorrect == Spec => []TypeOK
  <1>1. ASSUME IType PROVE TypeOK
    BY <1>1 DEF IType, IPool, PoolTypes, InvPool, CmdTypes, WireTypes, TypeOK, Holding, HoldSteps
  <1> QED
    BY <1>1, TypesInvariant, PTL

-----------------------------------------------------------------------------
(* What the connections carry. *)

Clean(k) == sent[k] = <<>> /\ arrived[k] = <<>> /\ rd[k] = <<>>

(* What a connection in step with its commands carries while c holds it:   *)
(* nothing before c writes, then the command of c or the reply to it.      *)
InStep(c, k) ==
  /\ pc[c] \in {"check", "init", "write"} => Clean(k)
  /\ pc[c] = "read" =>
       /\ rd[k] = <<>>
       /\ \/ sent[k] = <<c>> /\ arrived[k] = <<>>
          \/ sent[k] = <<>> /\ arrived[k] = <<>> /\ k \in broken
          \/ /\ sent[k] = <<>> /\ Len(arrived[k]) = 1
             /\ arrived[k][1].means = "ok" => executed[c] > 0
  /\ pc[c] = "release" /\ err[c] # "bad" => Clean(k)
  /\ pc[c] = "release" /\ sent[k] # <<>> => sent[k] = <<c>> /\ c \in overdue

(* A connection is in step or skewed; only the misled write to one that is *)
(* skewed.                                                                 *)
InvWire ==
  /\ \A k \in Conns \ conns : Clean(k)
  /\ \A k \in broken : sent[k] = <<>>
  /\ \A k \in skewed : \A c \in Cmds : Copies(k, c) # {} => c \in misled
  /\ \A k \in Idle : k \notin skewed => Clean(k)
  /\ \A c \in Cmds : cn[c] # None /\ cn[c] \notin skewed => InStep(c, cn[c])
  /\ \A c \in Cmds : pc[c] = "init" => cn[c] \notin skewed
  /\ \A c \in Cmds : pc[c] = "read" /\ cn[c] \in skewed => c \in misled

(* What a command learns, and what may still be executed. *)
InvResult ==
  \A c \in Cmds :
    /\ pc[c] \in {"release", "free", "done"} /\ err[c] = "ok" => executed[c] > 0 \/ c \in misled
    /\ strays[c] > 0 => c \in overdue \cup misled

(* No other goroutine and no other place has the connection of c. *)
LEMMA Alone ==
  ASSUME IPool, NEW c \in Cmds, pc[c] \in HoldSteps
  PROVE  cn[c] \notin Idle /\ \A d \in Cmds \ {c} : cn[d] # cn[c]
  BY HeldIsOpen DEF IPool, InvOwner

(* A goroutine without a connection moves. *)
LEMMA FreeKeepsWire ==
  ASSUME IType, InvWire, NEW c \in Cmds, cn[c] = None,
         NEW t \in Step \ HoldSteps, pc' = [pc EXCEPT ![c] = t],
         UNCHANGED <<conns, idleConns, cn, wireVars, histVars>>,
         \A d \in Cmds \ {c} : err'[d] = err[d]
  PROVE  InvWire'
  <1> USE DEF wireVars, histVars
  <1>1. pc'[c] = t /\ \A d \in Cmds \ {c} : pc'[d] = pc[d]
    BY PcMoves DEF IType, IPool, PoolTypes
  <1>2. \A d \in Cmds : cn[d] # None => d # c /\ InStep(d, cn[d])' = InStep(d, cn[d])
    BY <1>1 DEF InStep, Clean
  <1>3. \A d \in Cmds : cn'[d] # None /\ cn'[d] \notin skewed' => InStep(d, cn[d])'
    BY <1>2 DEF InvWire
  <1>4. /\ \A k \in Conns \ conns' : Clean(k)'
        /\ \A k \in broken' : sent'[k] = <<>>
        /\ \A k \in skewed' : \A d \in Cmds : Copies(k, d)' # {} => d \in misled'
        /\ \A k \in Idle' : k \notin skewed' => Clean(k)'
    BY DEF InvWire, Clean, Idle, Copies
  <1>5. /\ \A d \in Cmds : pc'[d] = "init" => cn'[d] \notin skewed'
        /\ \A d \in Cmds : pc'[d] = "read" /\ cn'[d] \in skewed' => d \in misled'
    BY <1>1 DEF InvWire, HoldSteps
  <1> QED
    BY <1>3, <1>4, <1>5 DEF InvWire

(* A goroutine works on the connection it holds. *)
LEMMA HolderKeepsWire ==
  ASSUME IType, InvWire, NEW c \in Cmds, pc[c] \in HoldSteps, NEW k, k = cn[c],
         NEW t \in HoldSteps \ {"init"}, pc' = [pc EXCEPT ![c] = t],
         UNCHANGED <<conns, idleConns, cn, broken, executed>>,
         \A m \in Conns \ {k} : sent'[m] = sent[m] /\ arrived'[m] = arrived[m] /\ rd'[m] = rd[m],
         skewed \subseteq skewed', skewed' \subseteq skewed \cup {k},
         misled \subseteq misled', overdue \subseteq overdue',
         \A d \in Cmds \ {c} : err'[d] = err[d],
         k \in broken => sent'[k] = <<>>,
         k \in skewed' => \A d \in Cmds : Copies(k, d)' # {} => d \in misled',
         k \in skewed' /\ t = "read" => c \in misled',
         k \notin skewed' => InStep(c, k)'
  PROVE  InvWire'
  <1>1. pc'[c] = t /\ \A d \in Cmds \ {c} : pc'[d] = pc[d]
    BY PcMoves DEF IType, IPool, PoolTypes
  <1>2. k \in conns /\ k \in Conns /\ k \notin Idle /\ \A d \in Cmds \ {c} : cn[d] # k
    BY HeldIsOpen, Alone DEF IType
  <1>3. broken \subseteq Conns /\ Idle \subseteq Conns /\ skewed \subseteq Conns
    BY DEF IType, IPool, PoolTypes, WireTypes, Idle
  <1>4. \A d \in Cmds : cn'[d] # None /\ cn'[d] \notin skewed' => InStep(d, cn[d])'
    <2> SUFFICES ASSUME NEW d \in Cmds, cn[d] # None, cn[d] \notin skewed'
                 PROVE  InStep(d, cn[d])'
      OBVIOUS
    <2>1. CASE d = c
      BY <2>1
    <2>2. CASE d # c
      <3>1. cn[d] \in Conns \ {k} /\ InStep(d, cn[d])
        BY <1>2, <2>2 DEF InvWire, IType, IPool, PoolTypes
      <3> QED
        BY <1>1, <2>2, <3>1 DEF InStep, Clean
    <2> QED
      BY <2>1, <2>2
  <1>5. \A m \in Conns \ conns' : Clean(m)'
    BY <1>2 DEF InvWire, Clean
  <1>6. \A m \in broken' : sent'[m] = <<>>
    BY <1>3 DEF InvWire
  <1>7. \A m \in skewed' : \A d \in Cmds : Copies(m, d)' # {} => d \in misled'
    <2> SUFFICES ASSUME NEW m \in skewed', NEW d \in Cmds, Copies(m, d)' # {} PROVE d \in misled'
      OBVIOUS
    <2>1. CASE m # k
      <3>1. m \in skewed /\ Copies(m, d)' = Copies(m, d)
        BY <1>3, <2>1 DEF Copies
      <3> QED
        BY <3>1 DEF InvWire
    <2> QED
      BY <2>1
  <1>8. \A m \in Idle' : m \notin skewed' => Clean(m)'
    <2>1. Idle' = Idle
      BY DEF Idle
    <2> QED
      BY <1>2, <1>3, <2>1 DEF InvWire, Clean
  <1>9. /\ \A d \in Cmds : pc'[d] = "init" => cn'[d] \notin skewed'
        /\ \A d \in Cmds : pc'[d] = "read" /\ cn'[d] \in skewed' => d \in misled'
    BY <1>1, <1>2 DEF InvWire
  <1> QED
    BY <1>4, <1>5, <1>6, <1>7, <1>8, <1>9 DEF InvWire

(* Only a SET whose deadline has passed, or one that was sent on a skewed  *)
(* connection, is left on a connection that is closed.                     *)
LEMMA CloseKeepsWire ==
  ASSUME IType, InvWire, NEW c \in Cmds, NEW k, k = cn[c], Closed(k), conns' = conns \ {k},
         pc[c] \in {"check", "init", "release"}, NEW t \in {"pop", "free"},
         pc' = [pc EXCEPT ![c] = t], cn' = [cn EXCEPT ![c] = None],
         UNCHANGED <<idleConns, overdue, misled>>, \A d \in Cmds \ {c} : err'[d] = err[d]
  PROVE  /\ InvWire'
         /\ \A d \in Cmds : strays'[d] > strays[d] => d \in overdue \cup misled
  <1>0. pc[c] \in HoldSteps /\ t \notin HoldSteps
    BY DEF HoldSteps
  <1>1. pc'[c] = t /\ \A d \in Cmds \ {c} : pc'[d] = pc[d]
    BY PcMoves DEF IType, IPool, PoolTypes
  <1>2. k \in conns /\ k \in Conns /\ k # None /\ k \notin Idle /\ \A d \in Cmds \ {c} : cn[d] # k
    BY <1>0, HeldIsOpen, Alone DEF IType
  <1>3. broken \subseteq Conns /\ Idle \subseteq Conns /\ skewed \subseteq Conns /\ conns \subseteq Conns
    BY DEF IType, IPool, PoolTypes, WireTypes, Idle
  <1>4. cn'[c] = None /\ \A d \in Cmds \ {c} : cn'[d] = cn[d]
    BY DEF IType, IPool, PoolTypes
  <1>5. /\ sent'[k] = <<>> /\ arrived'[k] = <<>> /\ rd'[k] = <<>>
        /\ \A m \in Conns \ {k} : sent'[m] = sent[m] /\ arrived'[m] = arrived[m] /\ rd'[m] = rd[m]
        /\ broken' = broken \ {k} /\ skewed' = skewed \ {k} /\ UNCHANGED executed
    BY <1>2 DEF Closed, IType, WireTypes
  <1>6. \A d \in Cmds : cn'[d] # None /\ cn'[d] \notin skewed' => InStep(d, cn[d])'
    <2> SUFFICES ASSUME NEW d \in Cmds, cn'[d] # None, cn'[d] \notin skewed'
                 PROVE  InStep(d, cn[d])'
      OBVIOUS
    <2>1. d # c /\ cn'[d] = cn[d] /\ cn[d] \in Conns \ {k} /\ cn[d] \notin skewed
      BY <1>2, <1>4, <1>5 DEF IType, IPool, PoolTypes
    <2>2. InStep(d, cn[d])
      BY <1>4, <2>1 DEF InvWire
    <2> QED
      BY <1>1, <1>5, <2>1, <2>2 DEF InStep, Clean
  <1>7. \A m \in Conns \ conns' : Clean(m)'
    BY <1>2, <1>5 DEF InvWire, Clean
  <1>8. \A m \in broken' : sent'[m] = <<>>
    BY <1>3, <1>5 DEF InvWire
  <1>9. \A m \in skewed' : \A d \in Cmds : Copies(m, d)' # {} => d \in misled'
    BY <1>3, <1>5 DEF InvWire, Copies
  <1>10. \A m \in Idle' : m \notin skewed' => Clean(m)'
    <2>1. Idle' = Idle
      BY DEF Idle
    <2> QED
      BY <1>2, <1>3, <1>5, <2>1 DEF InvWire, Clean
  <1>11. /\ \A d \in Cmds : pc'[d] = "init" => cn'[d] \notin skewed'
         /\ \A d \in Cmds : pc'[d] = "read" /\ cn'[d] \in skewed' => d \in misled'
    BY <1>1, <1>4, <1>5 DEF InvWire
  <1>12. ASSUME NEW d \in Cmds, strays'[d] > strays[d] PROVE d \in overdue \cup misled
    <2>1. strays'[d] = strays[d] + Cardinality(Copies(k, d)) /\ strays[d] \in Nat
      BY DEF Closed, IType, WireTypes
    <2>2. Copies(k, d) # {}
      <3>1. CASE Copies(k, d) = {}
        <4>1. Cardinality(Copies(k, d)) = 0
          BY <3>1, FS_EmptySet
        <4> QED
          BY <1>12, <2>1, <4>1
      <3> QED
        BY <3>1
    <2>3. PICK i \in 1..Len(sent[k]) : sent[k][i] = d
      BY <2>2 DEF Copies
    <2>4. sent[k] # <<>>
      BY <2>3
    <2>5. CASE k \in skewed
      BY <2>2, <2>5 DEF InvWire
    <2>6. CASE k \notin skewed
      <3>1. InStep(c, k)
        BY <1>2, <2>6 DEF InvWire
      <3>2. sent[k] = <<c>> /\ c \in overdue
        BY <2>4, <3>1 DEF InStep, Clean
      <3> QED
        BY <2>3, <3>2
    <2> QED
      BY <2>5, <2>6
  <1> QED
    BY <1>6, <1>7, <1>8, <1>9, <1>10, <1>11, <1>12 DEF InvWire

(* An idle connection is popped as it was left. *)
LEMMA PopKeepsWire ==
  ASSUME IType, IPool', InvWire, NEW c \in Cmds, idleConns # <<>>, NEW k, k = idleConns[Len(idleConns)],
         cn' = [cn EXCEPT ![c] = k], pc' = [pc EXCEPT ![c] = "check"],
         idleConns' = idleRest, UNCHANGED <<conns, err, wireVars, histVars>>
  PROVE  InvWire'
  <1> USE DEF wireVars, histVars
  <1>1. pc'[c] = "check" /\ cn'[c] = k /\ \A d \in Cmds \ {c} : pc'[d] = pc[d] /\ cn'[d] = cn[d]
    BY PcMoves DEF IType, IPool, PoolTypes
  <1>2. k \in Idle
    BY DEF IType, IPool, PoolTypes, Idle
  <1>3. Idle' \subseteq Idle
    <2>1. \A i \in 1..Len(idleConns') : idleConns'[i] \in Idle
      BY DEF IType, IPool, PoolTypes, Idle, idleRest
    <2> QED
      BY <2>1 DEF Idle
  <1>4. \A d \in Cmds : cn'[d] # None /\ cn'[d] \notin skewed' => InStep(d, cn[d])'
    <2> SUFFICES ASSUME NEW d \in Cmds, cn'[d] # None, cn'[d] \notin skewed'
                 PROVE  InStep(d, cn[d])'
      OBVIOUS
    <2>1. CASE d = c
      BY <1>1, <1>2, <2>1 DEF InvWire, InStep, Clean
    <2>2. CASE d # c
      <3>1. InStep(d, cn[d]) /\ cn'[d] = cn[d]
        BY <1>1, <2>2 DEF InvWire
      <3> QED
        BY <1>1, <2>2, <3>1 DEF InStep, Clean
    <2> QED
      BY <2>1, <2>2
  <1>5. /\ \A m \in Conns \ conns' : Clean(m)'
        /\ \A m \in broken' : sent'[m] = <<>>
        /\ \A m \in skewed' : \A d \in Cmds : Copies(m, d)' # {} => d \in misled'
        /\ \A m \in Idle' : m \notin skewed' => Clean(m)'
    BY <1>3 DEF InvWire, Clean, Copies
  <1>6. /\ \A d \in Cmds : pc'[d] = "init" => cn'[d] \notin skewed'
        /\ \A d \in Cmds : pc'[d] = "read" /\ cn'[d] \in skewed' => d \in misled'
    BY <1>1 DEF InvWire
  <1> QED
    BY <1>4, <1>5, <1>6 DEF InvWire

(* A new connection carries nothing. *)
LEMMA NewConnKeepsWire ==
  ASSUME IType, InvWire, NEW c \in Cmds, newConn(c)
  PROVE  InvWire'
  <1> USE DEF wireVars, histVars
  <1> DEFINE k == CHOOSE k \in Conns : k \notin conns
  <1>1. k \in Conns /\ k \notin conns
    BY DEF newConn
  <1>2. conns' = conns \cup {k} /\ cn' = [cn EXCEPT ![c] = k] /\ pc' = [pc EXCEPT ![c] = "init"]
        /\ UNCHANGED <<idleConns, err, wireVars, histVars>>
    BY DEF newConn, Goto, envVars
  <1> HIDE DEF k
  <1>3. pc'[c] = "init" /\ cn'[c] = k /\ \A d \in Cmds \ {c} : pc'[d] = pc[d] /\ cn'[d] = cn[d]
    BY <1>2, PcMoves DEF IType, IPool, PoolTypes
  <1>4. k \notin skewed /\ Clean(k)
    BY <1>1 DEF InvWire, IType, WireTypes
  <1>5. \A d \in Cmds : cn'[d] # None /\ cn'[d] \notin skewed' => InStep(d, cn[d])'
    <2> SUFFICES ASSUME NEW d \in Cmds, cn'[d] # None, cn'[d] \notin skewed'
                 PROVE  InStep(d, cn[d])'
      OBVIOUS
    <2>1. CASE d = c
      BY <1>2, <1>3, <1>4, <2>1 DEF InStep, Clean
    <2>2. CASE d # c
      <3>1. InStep(d, cn[d]) /\ cn'[d] = cn[d]
        BY <1>2, <1>3, <2>2 DEF InvWire
      <3> QED
        BY <1>2, <1>3, <2>2, <3>1 DEF InStep, Clean
    <2> QED
      BY <2>1, <2>2
  <1>6. /\ \A m \in Conns \ conns' : Clean(m)'
        /\ \A m \in broken' : sent'[m] = <<>>
        /\ \A m \in skewed' : \A d \in Cmds : Copies(m, d)' # {} => d \in misled'
        /\ \A m \in Idle' : m \notin skewed' => Clean(m)'
    BY <1>2 DEF InvWire, Clean, Copies, Idle
  <1>7. /\ \A d \in Cmds : pc'[d] = "init" => cn'[d] \notin skewed'
        /\ \A d \in Cmds : pc'[d] = "read" /\ cn'[d] \in skewed' => d \in misled'
    BY <1>2, <1>3, <1>4 DEF InvWire
  <1> QED
    BY <1>5, <1>6, <1>7 DEF InvWire

(* A connection goes back to the pool only with nothing owed on it. *)
LEMMA PutKeepsWire ==
  ASSUME IType, InvWire, NEW c \in Cmds, NEW k, k = cn[c], pc[c] = "release", err[c] # "bad",
         idleConns' = Append(idleConns, k), cn' = [cn EXCEPT ![c] = None],
         pc' = [pc EXCEPT ![c] = "free"], UNCHANGED <<conns, err, wireVars, histVars>>
  PROVE  InvWire'
  <1> USE DEF wireVars, histVars
  <1>1. pc'[c] = "free" /\ cn'[c] = None /\ \A d \in Cmds \ {c} : pc'[d] = pc[d] /\ cn'[d] = cn[d]
    BY PcMoves DEF IType, IPool, PoolTypes
  <1>2. k \in conns /\ k # None
    BY HeldIsOpen DEF IType, HoldSteps
  <1>3. k \notin skewed => Clean(k)
    BY <1>2 DEF InvWire, InStep
  <1>4. Idle' \subseteq Idle \cup {k}
    <2>1. idleConns \in Seq(conns)
      BY DEF IType, IPool, PoolTypes
    <2>2. Len(idleConns') = Len(idleConns) + 1 /\ idleConns'[Len(idleConns) + 1] = k
          /\ \A i \in 1..Len(idleConns) : idleConns'[i] = idleConns[i]
      BY <1>2, <2>1, AppendProperties
    <2> QED
      BY <2>1, <2>2 DEF Idle
  <1>5. \A d \in Cmds : cn'[d] # None /\ cn'[d] \notin skewed' => InStep(d, cn[d])'
    <2> SUFFICES ASSUME NEW d \in Cmds, cn'[d] # None, cn'[d] \notin skewed'
                 PROVE  InStep(d, cn[d])'
      OBVIOUS
    <2>1. d # c /\ InStep(d, cn[d]) /\ cn'[d] = cn[d]
      BY <1>1 DEF InvWire
    <2> QED
      BY <1>1, <2>1 DEF InStep, Clean
  <1>6. /\ \A m \in Conns \ conns' : Clean(m)'
        /\ \A m \in broken' : sent'[m] = <<>>
        /\ \A m \in skewed' : \A d \in Cmds : Copies(m, d)' # {} => d \in misled'
        /\ \A m \in Idle' : m \notin skewed' => Clean(m)'
    BY <1>3, <1>4 DEF InvWire, Clean, Copies
  <1>7. /\ \A d \in Cmds : pc'[d] = "init" => cn'[d] \notin skewed'
        /\ \A d \in Cmds : pc'[d] = "read" /\ cn'[d] \in skewed' => d \in misled'
    BY <1>1 DEF InvWire
  <1> QED
    BY <1>5, <1>6, <1>7 DEF InvWire

(* Redis executes what a connection carries next.  On a connection in step *)
(* that is the command of its owner, whose reply is then the only one.     *)
LEMMA ExecuteKeepsWire ==
  ASSUME IType, InvWire, NEW k \in Conns, Execute(k)
  PROVE  InvWire'
  <1>1. k \in conns /\ k \notin broken /\ sent[k] # <<>> /\ sent[k] \in Seq(Cmds \cup {Info})
    BY DEF Execute, IType, WireTypes
  <1>2. UNCHANGED <<conns, idleConns, pc, cn, err, broken, rd, overdue, skewed, misled>>
    BY DEF Execute, poolVars, heldVars, cmdVars, histVars
  <1>3. PICK r \in Reply :
          /\ r.of = Head(sent[k])
          /\ arrived' = [arrived EXCEPT ![k] = Append(arrived[k], r)]
          /\ executed' = [c \in Cmds |-> executed[c] + IF c = r.of /\ r.means = "ok" THEN 1 ELSE 0]
    BY DEF Execute
  <1>4. sent' = [sent EXCEPT ![k] = Tail(sent[k])]
    BY DEF Execute
  <1>5. \A m \in Conns \ {k} : sent'[m] = sent[m] /\ arrived'[m] = arrived[m]
    BY <1>3, <1>4 DEF IType, WireTypes
  <1>6. sent'[k] = Tail(sent[k]) /\ arrived'[k] = Append(arrived[k], r)
    BY <1>3, <1>4 DEF IType, WireTypes
  <1>7. \A c \in Cmds : executed[c] \in Nat /\ executed'[c] \in Nat /\ executed'[c] >= executed[c]
    BY <1>3 DEF IType, WireTypes
  <1>8. \A d \in Cmds : cn'[d] # None /\ cn'[d] \notin skewed' => InStep(d, cn[d])'
    <2> SUFFICES ASSUME NEW d \in Cmds, cn[d] # None, cn[d] \notin skewed
                 PROVE  InStep(d, cn[d])'
      BY <1>2
    <2>1. InStep(d, cn[d]) /\ cn[d] \in Conns
      BY DEF InvWire, IType, IPool, PoolTypes
    <2>2. CASE cn[d] # k
      BY <1>2, <1>5, <1>7, <2>1, <2>2 DEF InStep, Clean
    <2>3. CASE cn[d] = k
      <3>1. pc[d] \in {"read", "release"} /\ sent[k] = <<d>>
        BY <1>1, <2>1, <2>3 DEF InStep, Clean, HoldSteps, IType, IPool, PoolTypes
      <3>2. sent'[k] = <<>> /\ r.of = d
        BY <1>3, <1>6, <3>1
      <3>3. CASE pc[d] = "read"
        <4>1. rd[k] = <<>> /\ arrived[k] = <<>>
          BY <1>1, <2>1, <2>3, <3>1, <3>3 DEF InStep
        <4>2. Len(arrived'[k]) = 1 /\ arrived'[k][1] = r
          BY <1>6, <4>1
        <4>3. r.means = "ok" => executed'[d] > 0
          BY <1>3, <1>7, <3>2
        <4> QED
          BY <1>2, <2>3, <3>2, <3>3, <4>1, <4>2, <4>3 DEF InStep
      <3>4. CASE pc[d] = "release"
        <4>1. err[d] = "bad"
          BY <1>1, <2>1, <2>3, <3>4 DEF InStep, Clean
        <4> QED
          BY <1>2, <2>3, <3>2, <3>4, <4>1 DEF InStep
      <3> QED
        BY <3>1, <3>3, <3>4
    <2> QED
      BY <2>2, <2>3
  <1>9. k \in Idle => k \in skewed
    BY <1>1 DEF InvWire, Clean
  <1>10. \A m \in skewed' : \A d \in Cmds : Copies(m, d)' # {} => d \in misled'
    <2> SUFFICES ASSUME NEW m \in skewed, NEW d \in Cmds, Copies(m, d)' # {} PROVE d \in misled
      BY <1>2
    <2>1. CASE m # k
      <3>1. Copies(m, d)' = Copies(m, d)
        BY <1>5, <2>1 DEF Copies, IType, WireTypes, IPool, PoolTypes
      <3> QED
        BY <3>1 DEF InvWire
    <2>2. CASE m = k
      <3>1. PICK i \in 1..Len(sent'[k]) : sent'[k][i] = d
        BY <2>2 DEF Copies
      <3>2. i + 1 \in 1..Len(sent[k]) /\ sent[k][i + 1] = d
        BY <1>1, <1>6, <3>1
      <3>3. Copies(k, d) # {}
        BY <3>2 DEF Copies
      <3> QED
        BY <2>2, <3>3 DEF InvWire
    <2> QED
      BY <2>1, <2>2
  <1>11. /\ \A m \in Conns \ conns' : Clean(m)'
         /\ \A m \in broken' : sent'[m] = <<>>
    BY <1>1, <1>2, <1>5 DEF InvWire, Clean, IType, WireTypes, IPool, PoolTypes
  <1>12. \A m \in Idle' : m \notin skewed' => Clean(m)'
    <2>1. Idle' = Idle /\ Idle \subseteq Conns
      BY <1>2 DEF Idle, IType, IPool, PoolTypes
    <2> QED
      BY <1>2, <1>5, <1>9, <2>1 DEF InvWire, Clean
  <1>13. /\ \A d \in Cmds : pc'[d] = "init" => cn'[d] \notin skewed'
         /\ \A d \in Cmds : pc'[d] = "read" /\ cn'[d] \in skewed' => d \in misled'
    BY <1>2 DEF InvWire
  <1> QED
    BY <1>8, <1>10, <1>11, <1>12, <1>13 DEF InvWire

(* A restart of Redis loses the commands on their way. *)
LEMMA RedisDownKeepsWire ==
  ASSUME IType, InvWire, RedisDown
  PROVE  InvWire'
  <1>1. broken' = conns /\ (\A k \in Conns : sent'[k] = <<>>)
        /\ UNCHANGED <<conns, idleConns, pc, cn, err, arrived, rd, executed, overdue, skewed, misled>>
    BY DEF RedisDown, poolVars, heldVars, cmdVars, histVars
  <1>2. conns \subseteq Conns /\ skewed \subseteq Conns /\ Idle \subseteq Conns /\ Idle' = Idle
    BY <1>1 DEF IType, IPool, PoolTypes, WireTypes, Idle
  <1>3. \A d \in Cmds : cn'[d] # None /\ cn'[d] \notin skewed' => InStep(d, cn[d])'
    <2> SUFFICES ASSUME NEW d \in Cmds, cn[d] # None, cn[d] \notin skewed
                 PROVE  InStep(d, cn[d])'
      BY <1>1
    <2>1. InStep(d, cn[d]) /\ cn[d] \in conns /\ cn[d] \in Conns
      BY DEF InvWire, IType, IPool, PoolTypes, InvOwner
    <2> QED
      BY <1>1, <2>1 DEF InStep, Clean
  <1>4. \A m \in skewed' : \A d \in Cmds : Copies(m, d)' = {}
    <2> SUFFICES ASSUME NEW m \in skewed', NEW d \in Cmds PROVE Copies(m, d)' = {}
      OBVIOUS
    <2>1. sent'[m] = <<>>
      BY <1>1, <1>2
    <2>2. 1..Len(sent'[m]) = {}
      BY <2>1
    <2> QED
      BY <2>2 DEF Copies
  <1>5. /\ \A m \in Conns \ conns' : Clean(m)'
        /\ \A m \in broken' : sent'[m] = <<>>
        /\ \A m \in Idle' : m \notin skewed' => Clean(m)'
    BY <1>1, <1>2 DEF InvWire, Clean
  <1>6. /\ \A d \in Cmds : pc'[d] = "init" => cn'[d] \notin skewed'
        /\ \A d \in Cmds : pc'[d] = "read" /\ cn'[d] \in skewed' => d \in misled'
    BY <1>1 DEF InvWire
  <1> QED
    BY <1>3, <1>4, <1>5, <1>6 DEF InvWire

(* A stray command is executed behind everybody's back. *)
LEMMA StrayKeepsWire ==
  ASSUME IType, InvWire, NEW c \in Cmds, ExecuteStray(c)
  PROVE  InvWire' /\ \A d \in Cmds : executed'[d] >= executed[d] /\ strays'[d] <= strays[d]
  <1>1. UNCHANGED <<conns, idleConns, pc, cn, err, broken, sent, arrived, rd, overdue, skewed, misled>>
    BY DEF ExecuteStray, poolVars, heldVars, cmdVars, histVars
  <1>2. \A d \in Cmds : executed[d] \in Nat /\ executed'[d] \in Nat /\ executed'[d] >= executed[d] /\ strays'[d] <= strays[d]
    BY DEF ExecuteStray, IType, WireTypes
  <1>3. \A d \in Cmds : cn'[d] # None /\ cn'[d] \notin skewed' => InStep(d, cn[d])'
    <2> SUFFICES ASSUME NEW d \in Cmds, cn[d] # None, cn[d] \notin skewed
                 PROVE  InStep(d, cn[d])'
      BY <1>1
    <2>1. InStep(d, cn[d])
      BY DEF InvWire
    <2> QED
      BY <1>1, <1>2, <2>1 DEF InStep, Clean
  <1>4. /\ \A m \in Conns \ conns' : Clean(m)'
        /\ \A m \in broken' : sent'[m] = <<>>
        /\ \A m \in skewed' : \A d \in Cmds : Copies(m, d)' # {} => d \in misled'
        /\ \A m \in Idle' : m \notin skewed' => Clean(m)'
    BY <1>1 DEF InvWire, Clean, Copies, Idle
  <1>5. /\ \A d \in Cmds : pc'[d] = "init" => cn'[d] \notin skewed'
        /\ \A d \in Cmds : pc'[d] = "read" /\ cn'[d] \in skewed' => d \in misled'
    BY <1>1 DEF InvWire
  <1> QED
    BY <1>2, <1>3, <1>4, <1>5 DEF InvWire

(* The steps of a goroutine with its connection. *)
LEMMA ConnStepKeepsWire ==
  ASSUME IType, InvWire, NEW c \in Cmds,
         \/ isHealthyConn(c) \/ initConn(c) \/ initConnSkewed(c)
         \/ writeCmd(c) \/ readReply(c) \/ ioFails(c) \/ readTimeout(c)
  PROVE  InvWire'
  <1>0. PICK k : k = cn[c]
    OBVIOUS
  <1> USE DEF Goto, Ends, poolVars, heldVars, envVars, wireVars, histVars
  <1>1. pc[c] \in HoldSteps
    BY DEF isHealthyConn, initConn, initConnSkewed, writeCmd, readReply, ioFails, readTimeout, HoldSteps
  <1>2. UNCHANGED <<conns, idleConns, cn, broken, executed>>
    BY DEF isHealthyConn, initConn, initConnSkewed, writeCmd, readReply, ioFails, readTimeout
  <1>3. k \in conns /\ k \in Conns /\ k # None
    BY <1>1, <1>0, HeldIsOpen DEF IType
  <1>4. k \in skewed \/ InStep(c, k)
    BY <1>3, <1>0 DEF InvWire
  <1>5. k \in broken => sent[k] = <<>>
    BY DEF InvWire
  <1>6. k \in skewed => \A d \in Cmds : Copies(k, d) # {} => d \in misled
    BY DEF InvWire
  <1>7. pc \in [Cmds -> Step] /\ err \in [Cmds -> Outcome]
    BY DEF IType, IPool, PoolTypes, CmdTypes
  <1>8. /\ sent \in [Conns -> Seq(Cmds \cup {Info})]
        /\ arrived \in [Conns -> Seq(Reply)] /\ rd \in [Conns -> Seq(Reply)]
    BY DEF IType, WireTypes
  <1>10. ASSUME UNCHANGED <<sent, arrived, rd, skewed, misled>>, overdue \subseteq overdue',
                NEW t \in {"write", "release"}, pc' = [pc EXCEPT ![c] = t],
                \A d \in Cmds \ {c} : err'[d] = err[d],
                k \notin skewed => InStep(c, k)'
         PROVE  InvWire'
    <2>1. \A d \in Cmds : Copies(k, d)' = Copies(k, d)
      BY <1>10 DEF Copies
    <2>2. t \in HoldSteps \ {"init"} /\ t # "read"
      BY DEF HoldSteps
    <2>3. k \in skewed' => \A d \in Cmds : Copies(k, d)' # {} => d \in misled'
      BY <1>6, <1>10, <2>1
    <2>4. /\ \A m \in Conns \ {k} : sent'[m] = sent[m] /\ arrived'[m] = arrived[m] /\ rd'[m] = rd[m]
          /\ skewed \subseteq skewed' /\ skewed' \subseteq skewed \cup {k} /\ misled \subseteq misled'
          /\ k \in broken => sent'[k] = <<>>
          /\ k \notin skewed' => InStep(c, k)'
      BY <1>5, <1>10
    <2> QED
      BY <1>1, <1>2, <1>0, <1>10, <2>2, <2>3, <2>4, HolderKeepsWire
  <1>11. CASE isHealthyConn(c) \/ initConn(c)
    <2>1. /\ UNCHANGED <<sent, arrived, rd, skewed, misled, overdue, err>>
          /\ pc[c] \in {"check", "init"} /\ pc' = [pc EXCEPT ![c] = "write"]
      BY <1>11 DEF isHealthyConn, initConn
    <2>2. k \notin skewed => InStep(c, k)'
      BY <1>4, <1>7, <2>1 DEF InStep, Clean
    <2> QED
      BY <1>10, <2>1, <2>2
  <1>12. CASE ioFails(c)
    <2>1. /\ UNCHANGED <<sent, arrived, rd, skewed, misled, overdue>> /\ (k \in broken \/ pc[c] = "write")
          /\ pc' = [pc EXCEPT ![c] = "release"] /\ err' = [err EXCEPT ![c] = "bad"]
      BY <1>0, <1>12 DEF ioFails
    <2>2. k \notin skewed => InStep(c, k)'
      BY <1>4, <1>5, <1>7, <2>1 DEF InStep, Clean
    <2>3. \A d \in Cmds \ {c} : err'[d] = err[d]
      BY <1>7, <2>1
    <2> QED
      BY <1>10, <2>1, <2>2, <2>3
  <1>13. CASE readTimeout(c)
    <2>1. /\ UNCHANGED <<sent, arrived, rd, skewed, misled>> /\ overdue' = overdue \cup {c}
          /\ pc' = [pc EXCEPT ![c] = "release"] /\ err' = [err EXCEPT ![c] = "bad"] /\ pc[c] = "read"
      BY <1>13 DEF readTimeout
    <2>2. k \notin skewed => InStep(c, k)'
      BY <1>4, <1>7, <2>1 DEF InStep
    <2>3. \A d \in Cmds \ {c} : err'[d] = err[d]
      BY <1>7, <2>1
    <2> QED
      BY <1>10, <2>1, <2>2, <2>3
  <1>14. CASE initConnSkewed(c)
    <2>1. /\ UNCHANGED <<arrived, rd, misled, overdue, err>> /\ skewed' = skewed \cup {k} /\ k \notin broken
          /\ pc' = [pc EXCEPT ![c] = "write"]
      BY <1>0, <1>14 DEF initConnSkewed
    <2>2. PICK owed \in {<<Info>>, <<Info, Info>>} : sent' = [sent EXCEPT ![k] = owed]
      BY <1>0, <1>14 DEF initConnSkewed
    <2>3. sent'[k] = owed /\ \A m \in Conns \ {k} : sent'[m] = sent[m]
      BY <1>3, <1>8, <2>2
    <2>4. \A i \in 1..Len(owed) : owed[i] = Info
      OBVIOUS
    <2>5. \A d \in Cmds : Copies(k, d)' = {}
      BY <2>3, <2>4, NamesAssumption DEF Copies
    <2>6. "write" \in HoldSteps \ {"init"} /\ "write" # "read"
      BY DEF HoldSteps
    <2> QED
      BY <1>1, <1>2, <1>0, <2>1, <2>3, <2>5, <2>6, HolderKeepsWire
  <1>15. CASE writeCmd(c)
    <2>1. /\ UNCHANGED <<arrived, rd, overdue, skewed, err>> /\ k \notin broken /\ pc[c] = "write"
          /\ pc' = [pc EXCEPT ![c] = "read"] /\ sent' = [sent EXCEPT ![k] = Append(sent[k], c)]
          /\ misled' = IF k \in skewed THEN misled \cup {c} ELSE misled
      BY <1>0, <1>15 DEF writeCmd
    <2>2. sent'[k] = Append(sent[k], c) /\ \A m \in Conns \ {k} : sent'[m] = sent[m]
      BY <1>3, <1>8, <2>1
    <2>3. ASSUME k \in skewed, NEW d \in Cmds, Copies(k, d)' # {} PROVE d \in misled'
      <3>1. PICK i \in 1..Len(sent'[k]) : sent'[k][i] = d
        BY <2>3 DEF Copies
      <3>2. d = c \/ (i \in 1..Len(sent[k]) /\ sent[k][i] = d)
        BY <1>3, <1>8, <2>2, <3>1
      <3>3. d = c \/ Copies(k, d) # {}
        BY <3>2 DEF Copies
      <3> QED
        BY <1>6, <2>1, <2>3, <3>3
    <2>4. k \notin skewed => InStep(c, k)'
      <3> SUFFICES ASSUME k \notin skewed PROVE InStep(c, k)'
        OBVIOUS
      <3>1. Clean(k)
        BY <1>4, <2>1 DEF InStep
      <3>2. sent'[k] = <<c>> /\ arrived'[k] = <<>> /\ rd'[k] = <<>>
        BY <2>1, <2>2, <3>1 DEF Clean
      <3> QED
        BY <1>7, <2>1, <3>2 DEF InStep
    <2>5. "read" \in HoldSteps \ {"init"}
      BY DEF HoldSteps
    <2>6. /\ \A m \in Conns \ {k} : sent'[m] = sent[m] /\ arrived'[m] = arrived[m] /\ rd'[m] = rd[m]
          /\ skewed \subseteq skewed' /\ skewed' \subseteq skewed \cup {k} /\ misled \subseteq misled'
          /\ overdue \subseteq overdue' /\ (k \in broken => sent'[k] = <<>>)
          /\ (k \in skewed' => \A d \in Cmds : Copies(k, d)' # {} => d \in misled')
          /\ (k \in skewed' => c \in misled') /\ (k \notin skewed' => InStep(c, k)')
          /\ \A d \in Cmds \ {c} : err'[d] = err[d]
      BY <2>1, <2>2, <2>3, <2>4
    <2>7. pc' = [pc EXCEPT ![c] = "read"]
      BY <2>1
    <2> QED
      BY <1>1, <1>2, <1>0, <2>5, <2>6, <2>7, HolderKeepsWire
  <1>16. CASE readReply(c)
    <2> DEFINE all == IF rd[k] # <<>> THEN rd[k] ELSE arrived[k]
    <2>1. /\ UNCHANGED <<sent, overdue, skewed, misled>> /\ pc[c] = "read"
          /\ pc' = [pc EXCEPT ![c] = "release"]
      BY <1>16 DEF readReply
    <2>2. PICK e : err' = [err EXCEPT ![c] = e]
      BY <1>16 DEF readReply
    <2>3. /\ all # <<>> /\ rd' = [rd EXCEPT ![k] = Tail(all)]
          /\ arrived' = IF rd[k] # <<>> THEN arrived ELSE [arrived EXCEPT ![k] = <<>>]
      BY <1>0, <1>16 DEF readReply
    <2>4. \A m \in Conns \ {k} : sent'[m] = sent[m] /\ arrived'[m] = arrived[m] /\ rd'[m] = rd[m]
      BY <1>8, <2>1, <2>3
    <2>5. k \notin skewed => InStep(c, k)'
      <3> SUFFICES ASSUME k \notin skewed PROVE InStep(c, k)'
        OBVIOUS
      <3>1. /\ rd[k] = <<>> /\ sent[k] = <<>> /\ arrived[k] # <<>> /\ Len(arrived[k]) = 1
        BY <1>4, <2>1, <2>3 DEF InStep
      <3>2. Tail(arrived[k]) = <<>>
        <4>1. arrived[k] \in Seq(Reply)
          BY <1>3, <1>8
        <4>2. Tail(arrived[k]) \in Seq(Reply) /\ Len(Tail(arrived[k])) = 0
          BY <3>1, <4>1
        <4> QED
          BY <4>2, EmptySeq
      <3>3. sent'[k] = <<>> /\ arrived'[k] = <<>> /\ rd'[k] = <<>>
        BY <1>3, <1>8, <2>1, <2>3, <3>1, <3>2
      <3> QED
        BY <1>7, <2>1, <3>3 DEF InStep, Clean
    <2>6. "release" \in HoldSteps \ {"init"} /\ "release" # "read"
      BY DEF HoldSteps
    <2>7. \A d \in Cmds : Copies(k, d)' = Copies(k, d)
      BY <2>1 DEF Copies
    <2>8. /\ skewed \subseteq skewed' /\ skewed' \subseteq skewed \cup {k} /\ misled \subseteq misled'
          /\ overdue \subseteq overdue' /\ (k \in broken => sent'[k] = <<>>)
          /\ (k \in skewed' => \A d \in Cmds : Copies(k, d)' # {} => d \in misled')
          /\ (k \notin skewed' => InStep(c, k)')
      BY <1>5, <1>6, <2>1, <2>5, <2>7
    <2>9. \A d \in Cmds \ {c} : err'[d] = err[d]
      BY <1>7, <2>2
    <2>10. pc' = [pc EXCEPT ![c] = "release"]
      BY <2>1
    <2> HIDE DEF all
    <2> QED
      BY <1>1, <1>2, <1>0, <2>4, <2>6, <2>8, <2>9, <2>10, HolderKeepsWire
  <1> QED
    BY <1>11, <1>12, <1>13, <1>14, <1>15, <1>16

(* A step after which no command has newly learned that it succeeded. *)
LEMMA NothingLearned ==
  ASSUME InvResult,
         \A d \in Cmds : pc'[d] \in {"release", "free", "done"} /\ err'[d] = "ok"
                          => pc[d] \in {"release", "free", "done"} /\ err[d] = "ok",
         \A d \in Cmds : executed[d] \in Nat /\ executed'[d] \in Nat /\ executed'[d] >= executed[d],
         \A d \in Cmds : strays[d] \in Nat /\ strays'[d] \in Nat
                          /\ (strays'[d] > strays[d] => d \in overdue \cup misled),
         misled \subseteq misled', overdue \subseteq overdue'
  PROVE  InvResult'
  BY DEF InvResult

IWire == IType /\ InvWire /\ InvResult

(* Initially no reply is owed and no command has a result. *)
LEMMA WireInit == Init => InvWire /\ InvResult
  <1> SUFFICES ASSUME Init PROVE InvWire /\ InvResult
    OBVIOUS
  <1>1. \A k \in Conns : Clean(k)
    BY DEF Init, Clean
  <1>2. Idle = {} /\ broken = {} /\ skewed = {} /\ conns = {}
    BY DEF Init, Idle
  <1>3. \A c \in Cmds : cn[c] = None /\ pc[c] = "unsent" /\ strays[c] = 0
    BY DEF Init
  <1> QED
    BY <1>1, <1>2, <1>3 DEF InvWire, InvResult

(* A step that leaves commands and connections alone keeps the match of    *)
(* replies.                                                                *)
LEMMA SameWire ==
  ASSUME IWire, UNCHANGED <<conns, idleConns, pc, cn, err, wireVars, histVars>>
  PROVE  InvWire' /\ InvResult'
  <1> USE DEF wireVars, histVars
  <1>1. \A d \in Cmds : InStep(d, cn[d])' = InStep(d, cn[d])
    BY DEF InStep, Clean
  <1>2. InvWire'
    BY <1>1 DEF IWire, InvWire, Clean, Copies, Idle
  <1> QED
    BY <1>2 DEF IWire, InvResult

(* Every step keeps it. *)
LEMMA WireStep == IWire /\ Next => InvWire' /\ InvResult'
  <1> SUFFICES ASSUME IWire, Next PROVE InvWire' /\ InvResult'
    OBVIOUS
  <1> USE DEF IWire
  <1>0. pc \in [Cmds -> Step] /\ err \in [Cmds -> Outcome] /\ cn \in [Cmds -> Conns \cup {None}]
    BY DEF IType, IPool, PoolTypes, CmdTypes
  <1>1. WireTypes'
    BY WireTypesStep DEF IType
  <1>2. \A d \in Cmds : executed[d] \in Nat /\ executed'[d] \in Nat /\ strays[d] \in Nat /\ strays'[d] \in Nat
    BY <1>1 DEF IType, WireTypes
  <1>3. ASSUME NEW c \in Cmds,
               \/ process(c) \/ waitTurn(c) \/ waitTurnFails(c) \/ dialGate(c) \/ dialConnFails(c) \/ freeTurn(c) \/ retryBackoff(c)
        PROVE  InvWire' /\ InvResult'
    <2> USE DEF Goto, Ends
    <2>1. UNCHANGED <<conns, idleConns, cn, wireVars, histVars>>
      BY <1>3 DEF process, waitTurn, waitTurnFails, dialGate, dialConnFails, freeTurn, retryBackoff, poolVars, heldVars, envVars
    <2>2. PICK t \in Step \ HoldSteps :
            /\ pc' = [pc EXCEPT ![c] = t] /\ pc[c] \notin HoldSteps
            /\ t \in {"free", "done"} /\ err'[c] = "ok" => pc[c] = "free" /\ err[c] = "ok"
            /\ \A d \in Cmds \ {c} : err'[d] = err[d]
      <3> USE DEF Step, HoldSteps
      <3>1. CASE process(c) \/ waitTurn(c)
        BY <3>1 DEF process, waitTurn
      <3>2. CASE waitTurnFails(c) \/ dialConnFails(c)
        BY <1>0, <3>2 DEF waitTurnFails, dialConnFails
      <3>3. CASE dialGate(c)
        BY <1>0, <3>3 DEF dialGate
      <3>4. CASE freeTurn(c)
        BY <3>4 DEF freeTurn
      <3>5. CASE retryBackoff(c)
        BY <1>0, <3>5 DEF retryBackoff, InvRetry, IType
      <3> QED
        BY <1>3, <3>1, <3>2, <3>3, <3>4, <3>5
    <2>3. cn[c] = None
      BY <2>2 DEF IType, IPool, PoolTypes
    <2>4. InvWire'
      BY <2>1, <2>2, <2>3, FreeKeepsWire
    <2>5. \A d \in Cmds : pc'[d] \in {"release", "free", "done"} /\ err'[d] = "ok"
                          => pc[d] \in {"release", "free", "done"} /\ err[d] = "ok"
      BY <1>0, <2>2 DEF HoldSteps
    <2>6. UNCHANGED <<executed, strays, misled, overdue>>
      BY <2>1 DEF wireVars, histVars
    <2> QED
      BY <1>2, <2>4, <2>5, <2>6, NothingLearned
  <1>4. ASSUME NEW c \in Cmds, popIdle(c) \/ newConn(c) PROVE InvWire' /\ InvResult'
    <2>1. UNCHANGED <<err, wireVars, histVars>>
      BY <1>4 DEF popIdle, newConn, envVars
    <2>2. PICK t \in {"gate", "check", "init"} : pc' = [pc EXCEPT ![c] = t]
      BY <1>4 DEF popIdle, newConn, Goto
    <2>3. UNCHANGED <<executed, strays, misled, overdue>>
      BY <2>1 DEF wireVars, histVars
    <2>4. InvResult'
      BY <1>0, <1>2, <2>1, <2>2, <2>3, NothingLearned
    <2>5. CASE newConn(c)
      BY <2>4, <2>5, NewConnKeepsWire
    <2>6. CASE popIdle(c)
      <3>1. CASE idleConns = <<>> /\ Goto(c, "gate") /\ UNCHANGED <<idleConns, cn>>
        <4>1. cn[c] = None /\ UNCHANGED conns /\ "gate" \in Step \ HoldSteps
          BY <2>6 DEF popIdle, IType, IPool, PoolTypes, HoldSteps, Step
        <4>2. InvWire'
          BY <2>1, <3>1, <4>1, FreeKeepsWire DEF Goto
        <4> QED
          BY <2>4, <4>2
      <3>2. CASE ~(idleConns = <<>>)
        <4>1. /\ cn' = [cn EXCEPT ![c] = idleConns[Len(idleConns)]] /\ idleConns' = idleRest
              /\ pc' = [pc EXCEPT ![c] = "check"] /\ UNCHANGED conns
          BY <2>6, <3>2 DEF popIdle, Goto
        <4>2. IPool'
          BY PoolStep DEF IType
        <4>3. InvWire'
          BY <2>1, <3>2, <4>1, <4>2, PopKeepsWire
        <4> QED
          BY <2>4, <4>3
      <3> QED
        BY <2>6, <3>1, <3>2 DEF popIdle
    <2> QED
      BY <1>4, <2>5, <2>6
  <1>5. ASSUME NEW c \in Cmds, Closed(cn[c]), conns' = conns \ {cn[c]},
               pc[c] \in {"check", "init", "release"}, NEW t \in {"pop", "free"},
               pc' = [pc EXCEPT ![c] = t], cn' = [cn EXCEPT ![c] = None],
               UNCHANGED <<idleConns, overdue, misled>>, \A d \in Cmds \ {c} : err'[d] = err[d],
               t = "free" /\ err'[c] = "ok" => pc[c] = "release" /\ err[c] = "ok"
        PROVE  InvWire' /\ InvResult'
    <2>1. /\ InvWire'
          /\ \A d \in Cmds : strays'[d] > strays[d] => d \in overdue \cup misled
      BY <1>5, CloseKeepsWire
    <2>2. \A d \in Cmds : pc'[d] \in {"release", "free", "done"} /\ err'[d] = "ok"
                          => pc[d] \in {"release", "free", "done"} /\ err[d] = "ok"
      BY <1>0, <1>5
    <2>3. UNCHANGED executed
      BY <1>5 DEF Closed
    <2> QED
      BY <1>2, <1>5, <2>1, <2>2, <2>3, NothingLearned
  <1>6. ASSUME NEW c \in Cmds, CloseConn(c) PROVE InvWire' /\ InvResult'
    BY <1>5, <1>6 DEF CloseConn, removeConn, Goto
  <1>7. ASSUME NEW c \in Cmds, initConnFails(c) PROVE InvWire' /\ InvResult'
    <2>1. PICK e \in {"retry", "final"} : pc' = [pc EXCEPT ![c] = "free"] /\ err' = [err EXCEPT ![c] = e]
      BY <1>7 DEF initConnFails, Ends, Goto
    <2>2. err'[c] # "ok" /\ \A d \in Cmds \ {c} : err'[d] = err[d]
      BY <1>0, <2>1
    <2> QED
      BY <1>5, <1>7, <2>1, <2>2 DEF initConnFails, removeConn
  <1>8. ASSUME NEW c \in Cmds, releaseConn(c) PROVE InvWire' /\ InvResult'
    <2>1. /\ pc[c] = "release" /\ pc' = [pc EXCEPT ![c] = "free"] /\ cn' = [cn EXCEPT ![c] = None]
          /\ UNCHANGED <<err, overdue, misled>>
      BY <1>8 DEF releaseConn, Goto
    <2>2. CASE removeConn(cn[c]) /\ UNCHANGED idleConns
      BY <1>5, <2>1, <2>2 DEF removeConn
    <2>3. CASE /\ ~isBadConn(c) /\ idleConns' = Append(idleConns, cn[c])
               /\ UNCHANGED <<conns, wireVars, skewed>>
      <3>1. InvWire'
        BY <2>1, <2>3, PutKeepsWire DEF isBadConn, histVars
      <3>2. UNCHANGED <<executed, strays>>
        BY <2>3 DEF wireVars
      <3>3. \A d \in Cmds : pc'[d] \in {"release", "free", "done"} /\ err'[d] = "ok"
                          => pc[d] \in {"release", "free", "done"} /\ err[d] = "ok"
        BY <1>0, <2>1
      <3> QED
        BY <1>2, <2>1, <3>1, <3>2, <3>3, NothingLearned
    <2> QED
      BY <1>8, <2>2, <2>3 DEF releaseConn
  <1>9. ASSUME NEW c \in Cmds,
               \/ isHealthyConn(c) \/ initConn(c) \/ initConnSkewed(c) \/ writeCmd(c) \/ ioFails(c) \/ readTimeout(c)
        PROVE  InvWire' /\ InvResult'
    <2> USE DEF envVars, wireVars, histVars, Goto, Ends
    <2>1. InvWire'
      BY <1>9, ConnStepKeepsWire
    <2>2. UNCHANGED <<executed, strays>> /\ misled \subseteq misled' /\ overdue \subseteq overdue'
      BY <1>9 DEF isHealthyConn, initConn, initConnSkewed, writeCmd, ioFails, readTimeout
    <2>3. PICK t \in {"write", "read", "release"} : pc' = [pc EXCEPT ![c] = t]
      BY <1>9 DEF isHealthyConn, initConn, initConnSkewed, writeCmd, ioFails, readTimeout
    <2>4. (\A d \in Cmds \ {c} : err'[d] = err[d]) /\ (t = "release" => err'[c] = "bad")
      BY <1>0, <1>9, <2>3 DEF isHealthyConn, initConn, initConnSkewed, writeCmd, ioFails, readTimeout
    <2>5. \A d \in Cmds : pc'[d] \in {"release", "free", "done"} /\ err'[d] = "ok"
                          => pc[d] \in {"release", "free", "done"} /\ err[d] = "ok"
      BY <1>0, <2>3, <2>4
    <2> QED
      BY <1>2, <2>1, <2>2, <2>5, NothingLearned
  <1>10. ASSUME NEW c \in Cmds, readReply(c) PROVE InvWire' /\ InvResult'
    <2>1. InvWire'
      BY <1>10, ConnStepKeepsWire
    <2>2. UNCHANGED <<executed, strays, overdue, misled>> /\ pc[c] = "read" /\ pc' = [pc EXCEPT ![c] = "release"]
      BY <1>10 DEF readReply, histVars, Ends, Goto
    <2>3. PICK k : k = cn[c]
      OBVIOUS
    <2>4. PICK all : /\ all = IF rd[k] # <<>> THEN rd[k] ELSE arrived[k]
                     /\ all # <<>> /\ err' = [err EXCEPT ![c] = Head(all).means]
      BY <1>10, <2>3 DEF readReply, Ends
    <2>5. err'[c] = "ok" => Head(all).means = "ok"
      BY <1>0, <2>4
    <2>6. err'[c] = "ok" => executed[c] > 0 \/ c \in misled
      <3>1. CASE k \in skewed
        BY <2>2, <2>3, <3>1 DEF InvWire
      <3>2. CASE k \notin skewed
        <4>1. k # None
          BY <2>2, <2>3 DEF IType, IPool, PoolTypes, HoldSteps
        <4>2. InStep(c, k)
          BY <2>3, <3>2, <4>1 DEF InvWire
        <4>3. rd[k] = <<>> /\ Len(arrived[k]) = 1 /\ (arrived[k][1].means = "ok" => executed[c] > 0)
          BY <2>2, <2>4, <4>2 DEF InStep
        <4>4. Head(all) = arrived[k][1]
          BY <2>4, <4>3
        <4> QED
          BY <2>5, <4>3, <4>4
      <3> QED
        BY <3>1, <3>2
    <2>7. \A d \in Cmds \ {c} : pc'[d] = pc[d] /\ err'[d] = err[d]
      BY <1>0, <2>2, <2>4
    <2>8. InvResult'
      BY <2>2, <2>6, <2>7 DEF InvResult
    <2> QED
      BY <2>1, <2>8
  <1>11. ASSUME NEW k \in Conns, Execute(k) PROVE InvWire' /\ InvResult'
    <2>1. InvWire'
      BY <1>11, ExecuteKeepsWire
    <2>2. UNCHANGED <<pc, err, strays, overdue, misled>>
      BY <1>11 DEF Execute, cmdVars, histVars
    <2>3. \A d \in Cmds : executed'[d] >= executed[d]
      BY <1>2, <1>11 DEF Execute
    <2> QED
      BY <1>2, <2>1, <2>2, <2>3, NothingLearned
  <1>12. ASSUME NEW c \in Cmds, ExecuteStray(c) PROVE InvWire' /\ InvResult'
    <2>1. InvWire' /\ \A d \in Cmds : executed'[d] >= executed[d] /\ strays'[d] <= strays[d]
      BY <1>12, StrayKeepsWire
    <2>2. UNCHANGED <<pc, err, overdue, misled>>
      BY <1>12 DEF ExecuteStray, cmdVars, histVars
    <2> QED
      BY <1>2, <2>1, <2>2, NothingLearned
  <1>13. CASE RedisDown
    <2>1. InvWire'
      BY <1>13, RedisDownKeepsWire
    <2>2. UNCHANGED <<pc, err, executed, overdue, misled>> /\ \A d \in Cmds : strays'[d] = 0
      BY <1>13 DEF RedisDown, cmdVars, histVars
    <2> QED
      BY <1>2, <2>1, <2>2, NothingLearned
  <1>14. CASE UNCHANGED <<conns, idleConns, pc, cn, err, wireVars, histVars>>
    BY <1>14, SameWire
  <1>15. ASSUME NEW c \in Cmds, Cancel(c) PROVE InvWire' /\ InvResult'
    BY <1>14, <1>15 DEF Cancel, poolVars, heldVars
  <1>16. CASE tryDial \/ RedisBack
    BY <1>14, <1>16 DEF tryDial, RedisBack, poolVars, heldVars, cmdVars, envVars
  <1> QED
    BY <1>3, <1>4, <1>6, <1>7, <1>8, <1>9, <1>10, <1>11, <1>12, <1>13, <1>15, <1>16 DEF Next, _process

(* It holds throughout. *)
LEMMA WireInvariant == Spec => []IWire
  <1>1. Init => InvWire /\ InvResult
    BY WireInit
  <1>2. ASSUME IType, IType', InvWire /\ InvResult, [Next]_vars PROVE InvWire' /\ InvResult'
    <2>1. IWire
      BY <1>2 DEF IWire
    <2>2. CASE Next
      BY <2>1, <2>2, WireStep
    <2>3. CASE UNCHANGED vars
      <3>1. UNCHANGED <<conns, idleConns, pc, cn, err, wireVars, histVars>>
        BY <2>3 DEF vars, poolVars, heldVars, cmdVars, envVars
      <3> QED
        BY <2>1, <3>1, SameWire
    <2> QED
      BY <1>2, <2>2, <2>3
  <1>3. IType /\ InvWire /\ InvResult => IWire
    BY DEF IWire
  <1> QED
    BY <1>1, <1>2, <1>3, TypesInvariant, PTL DEF Spec

(* A command that has returned can be executed afterwards only if a reply  *)
(* of it missed its deadline (readTimeout, then Remove closes the socket   *)
(* with the SET on it) or it was sent on a skewed connection: releaseConn  *)
(* never puts a connection back that still owes a reply.                   *)
THEOREM LateIsOverdue == Spec => []LateOnlyIfOverdue
  <1>1. ASSUME IWire PROVE LateOnlyIfOverdue
    <2> SUFFICES ASSUME NEW c \in Cmds, pc[c] = "done", InFlight(c) PROVE c \in overdue \cup misled
      BY DEF LateOnlyIfOverdue
    <2>1. CASE strays[c] > 0
      BY <1>1, <2>1 DEF IWire, InvResult
    <2>2. ASSUME NEW k \in conns, Copies(k, c) # {} PROVE c \in overdue \cup misled
      <3>1. PICK i \in 1..Len(sent[k]) : sent[k][i] = c
        BY <2>2 DEF Copies
      <3>2. sent[k] # <<>>
        BY <3>1
      <3>3. CASE k \in skewed
        BY <1>1, <2>2, <3>3 DEF IWire, InvWire
      <3>4. CASE k \notin skewed
        <4>1. k \notin Idle
          BY <1>1, <3>2, <3>4 DEF IWire, InvWire, Clean
        <4>2. PICK d \in Cmds : cn[d] = k
          BY <1>1, <4>1 DEF IWire, IType, IPool, InvOwner
        <4>3. k # None /\ pc[d] \in HoldSteps
          BY <1>1, <4>2, NamesAssumption DEF IWire, IType, IPool, PoolTypes
        <4>4. InStep(d, k)
          BY <1>1, <3>4, <4>2, <4>3 DEF IWire, InvWire
        <4>5. sent[k] = <<d>>
          BY <3>2, <4>3, <4>4 DEF InStep, Clean, HoldSteps
        <4>6. c = d
          BY <3>1, <4>5
        <4> QED
          BY <4>3, <4>6 DEF HoldSteps
      <3> QED
        BY <3>3, <3>4
    <2> QED
      BY <2>1, <2>2 DEF InFlight
  <1> QED
    BY <1>1, WireInvariant, PTL

-----------------------------------------------------------------------------
(* How often a SET is executed. *)

(* The SETs of a command that are on their way. *)
OnWire(c) == {w \in Conns \X Nat : w[2] \in Copies(w[1], c)}

(* The attempts of a command that have come to their write. *)
Begun(c) == attempt[c] + IF pc[c] \in {"read", "release", "free", "backoff", "done"} THEN 1 ELSE 0

InvCount ==
  \A c \in Cmds :
    /\ IsFiniteSet(OnWire(c))
    /\ executed[c] + strays[c] + Cardinality(OnWire(c)) <= Begun(c)

(* Nothing new is sent. *)
LEMMA CountFrame ==
  ASSUME InvCount, NEW d \in Cmds,
         executed[d] + strays[d] \in Nat, executed'[d] + strays'[d] \in Nat, Begun(d) \in Nat, Begun(d)' \in Nat,
         OnWire(d)' \subseteq OnWire(d), executed'[d] + strays'[d] <= executed[d] + strays[d],
         Begun(d)' >= Begun(d)
  PROVE  /\ IsFiniteSet(OnWire(d)')
         /\ executed'[d] + strays'[d] + Cardinality(OnWire(d)') <= Begun(d)'
  <1>1. /\ IsFiniteSet(OnWire(d)') /\ Cardinality(OnWire(d)') \in Nat /\ Cardinality(OnWire(d)) \in Nat
        /\ Cardinality(OnWire(d)') <= Cardinality(OnWire(d))
    BY SubsetCard DEF InvCount
  <1>2. executed[d] + strays[d] + Cardinality(OnWire(d)) <= Begun(d)
    BY DEF InvCount
  <1> HIDE DEF OnWire, Begun
  <1> QED
    BY <1>1, <1>2

(* A command sends once for each attempt. *)
LEMMA BegunGrows ==
  ASSUME IType, Next
  PROVE  \A d \in Cmds : Begun(d) \in Nat /\ Begun(d)' \in Nat /\ Begun(d)' >= Begun(d)
  <1> SUFFICES ASSUME NEW d \in Cmds PROVE Begun(d) \in Nat /\ Begun(d)' \in Nat /\ Begun(d)' >= Begun(d)
    OBVIOUS
  <1>1. pc \in [Cmds -> Step] /\ attempt[d] \in Nat /\ attempt'[d] \in Nat
    BY CmdTypesStep, SizeAssumption DEF IType, IPool, PoolTypes, CmdTypes
  <1>2. attempt \in [Cmds -> 0..MaxRetries]
    BY DEF IType, CmdTypes
  <1> USE DEF Goto, Ends
  <1>3. ASSUME NEW c \in Cmds, UNCHANGED attempt,
               NEW t, pc' = [pc EXCEPT ![c] = t],
               pc[c] \in {"read", "release", "free", "backoff", "done"} => t \in {"read", "release", "free", "backoff", "done"}
        PROVE  Begun(d) \in Nat /\ Begun(d)' \in Nat /\ Begun(d)' >= Begun(d)
    BY <1>1, <1>3 DEF Begun
  <1>4. ASSUME NEW c \in Cmds, process(c) \/ _process(c), UNCHANGED attempt
        PROVE  Begun(d) \in Nat /\ Begun(d)' \in Nat /\ Begun(d)' >= Begun(d)
    <2>1. CASE process(c) \/ waitTurn(c) \/ popIdle(c) \/ isHealthyConn(c) \/ CloseConn(c) \/ newConn(c)
      BY <1>3, <1>4, <2>1 DEF process, waitTurn, popIdle, isHealthyConn, CloseConn, newConn
    <2>2. CASE waitTurnFails(c) \/ dialConnFails(c) \/ initConnFails(c) \/ ioFails(c) \/ readTimeout(c)
      BY <1>3, <1>4, <2>2 DEF waitTurnFails, dialConnFails, initConnFails, ioFails, readTimeout
    <2>3. CASE dialGate(c) \/ readReply(c) \/ freeTurn(c)
      BY <1>3, <1>4, <2>3 DEF dialGate, readReply, freeTurn
    <2>4. CASE initConn(c) \/ initConnSkewed(c) \/ writeCmd(c) \/ releaseConn(c)
      BY <1>3, <1>4, <2>4 DEF initConn, initConnSkewed, writeCmd, releaseConn
    <2>5. CASE retryBackoff(c)
      <3>1. (attempt' = [attempt EXCEPT ![c] = attempt[c] + 1]) \/ pc' = [pc EXCEPT ![c] = "done"]
        BY <2>5 DEF retryBackoff
      <3>2. attempt' # [attempt EXCEPT ![c] = attempt[c] + 1]
        BY <1>2, <1>4, SizeAssumption
      <3> QED
        BY <1>3, <1>4, <3>1, <3>2
    <2> QED
      BY <1>4, <2>1, <2>2, <2>3, <2>4, <2>5 DEF _process
  <1>5. ASSUME NEW c \in Cmds, retryBackoff(c)
        PROVE  Begun(d) \in Nat /\ Begun(d)' \in Nat /\ Begun(d)' >= Begun(d)
    <2>1. CASE UNCHANGED attempt
      BY <1>4, <1>5, <2>1 DEF _process
    <2>2. CASE attempt' = [attempt EXCEPT ![c] = attempt[c] + 1]
      <3>1. pc' = [pc EXCEPT ![c] = "turn"] \/ pc' = [pc EXCEPT ![c] = "done"]
        BY <1>5 DEF retryBackoff
      <3>2. pc[c] = "backoff"
        BY <1>5 DEF retryBackoff
      <3>3. CASE d = c
        <4>1. attempt'[d] = attempt[d] + 1
          BY <1>2, <2>2, <3>3
        <4> QED
          BY <1>1, <4>1 DEF Begun
      <3>4. CASE d # c
        BY <1>1, <1>2, <2>2, <3>1, <3>4 DEF Begun
      <3> QED
        BY <3>3, <3>4
    <2> QED
      BY <1>5, <2>1, <2>2 DEF retryBackoff
  <1>6. CASE UNCHANGED <<pc, attempt>>
    BY <1>1, <1>6 DEF Begun
  <1>7. ASSUME NEW c \in Cmds, process(c) \/ _process(c), ~retryBackoff(c) PROVE UNCHANGED attempt
    BY <1>7 DEF process, _process, waitTurn, popIdle, isHealthyConn, CloseConn, newConn, waitTurnFails, dialConnFails,
                initConnFails, ioFails, readTimeout, dialGate, readReply, freeTurn, initConn, initConnSkewed, writeCmd,
                releaseConn
  <1>8. ASSUME NEW c \in Cmds, Cancel(c) \/ ExecuteStray(c) PROVE UNCHANGED <<pc, attempt>>
    BY <1>8 DEF Cancel, ExecuteStray, cmdVars
  <1>9. ASSUME NEW k \in Conns, Execute(k) PROVE UNCHANGED <<pc, attempt>>
    BY <1>9 DEF Execute, cmdVars
  <1>10. tryDial \/ RedisDown \/ RedisBack => UNCHANGED <<pc, attempt>>
    BY DEF tryDial, RedisDown, RedisBack, cmdVars
  <1> QED
    BY <1>4, <1>5, <1>6, <1>7, <1>8, <1>9, <1>10 DEF Next

(* What leaves the wire when the connection k is closed. *)
LEMMA CloseCount ==
  ASSUME NEW A, IsFiniteSet(A), NEW k, NEW C, IsFiniteSet(C), NEW B, B \subseteq A,
         \A i \in C : <<k, i>> \in A \ B
  PROVE  IsFiniteSet(B) /\ Cardinality(C) + Cardinality(B) <= Cardinality(A)
  <1> DEFINE D == A \ B
             f == [i \in C |-> <<k, i>>]
  <1>1. IsFiniteSet(B) /\ IsFiniteSet(D) /\ Cardinality(B) \in Nat /\ Cardinality(A) \in Nat /\ Cardinality(C) \in Nat
    BY FS_Subset, FS_CardinalityType
  <1>2. Cardinality(D) = Cardinality(A) - Cardinality(B)
    <2>1. A \cap B = B
      OBVIOUS
    <2>2. Cardinality(A \ B) = Cardinality(A) - Cardinality(A \cap B)
      BY FS_Difference
    <2> QED
      BY <2>1, <2>2
  <1>3. f \in Injection(C, D)
    BY DEF Injection, IsInjective
  <1> HIDE DEF D, f
  <1>4. Cardinality(C) <= Cardinality(D)
    BY <1>1, <1>3, FS_Injection
  <1> QED
    BY <1>1, <1>2, <1>4

(* What remains when the first SET of the connection k is taken off it. *)
LEMMA ShiftCount ==
  ASSUME NEW A, IsFiniteSet(A), NEW k \in Conns, NEW B, B \subseteq Conns \X Nat,
         \A w \in B : w[1] # k => w \in A,
         \A w \in B : w[1] = k => w[2] >= 1 /\ <<k, w[2] + 1>> \in A
  PROVE  /\ IsFiniteSet(B) /\ Cardinality(B) <= Cardinality(A)
         /\ <<k, 1>> \in A => Cardinality(B) + 1 <= Cardinality(A)
  <1> DEFINE D == A \ {<<k, 1>>}
             f == [w \in B |-> IF w[1] = k THEN <<k, w[2] + 1>> ELSE w]
  <1>1. IsFiniteSet(D) /\ Cardinality(D) = IF <<k, 1>> \in A THEN Cardinality(A) - 1 ELSE Cardinality(A)
    BY FS_RemoveElement
  <1>2. \A w \in B : w[1] \in Conns /\ w[2] \in Nat /\ w = <<w[1], w[2]>>
    OBVIOUS
  <1>3. f \in [B -> D]
    BY <1>2
  <1>4. \A v, w \in B : f[v] = f[w] => v = w
    <2> SUFFICES ASSUME NEW v \in B, NEW w \in B, f[v] = f[w] PROVE v = w
      OBVIOUS
    <2>1. f[v] = (IF v[1] = k THEN <<k, v[2] + 1>> ELSE v) /\ f[w] = IF w[1] = k THEN <<k, w[2] + 1>> ELSE w
      OBVIOUS
    <2> HIDE DEF f
    <2>2. CASE v[1] = k /\ w[1] = k
      <3>1. <<k, v[2] + 1>> = <<k, w[2] + 1>>
        BY <2>1, <2>2
      <3>2. v[2] + 1 = w[2] + 1
        BY <3>1
      <3>3. v[2] = w[2]
        BY <1>2, <3>2
      <3> QED
        BY <1>2, <2>2, <3>3
    <2>3. CASE v[1] = k /\ w[1] # k
      <3>1. w = <<k, v[2] + 1>>
        BY <2>1, <2>3
      <3> QED
        BY <2>3, <3>1
    <2>4. CASE v[1] # k /\ w[1] = k
      <3>1. v = <<k, w[2] + 1>>
        BY <2>1, <2>4
      <3> QED
        BY <2>4, <3>1
    <2>5. CASE v[1] # k /\ w[1] # k
      BY <2>1, <2>5
    <2> QED
      BY <2>2, <2>3, <2>4, <2>5
  <1>5. f \in Injection(B, D)
    BY <1>3, <1>4 DEF Injection, IsInjective
  <1> HIDE DEF D, f
  <1>6. IsFiniteSet(B) /\ Cardinality(B) <= Cardinality(D)
    BY <1>1, <1>5, FS_Injection
  <1>7. Cardinality(A) \in Nat /\ Cardinality(B) \in Nat
    BY <1>6, FS_CardinalityType
  <1> QED
    BY <1>1, <1>6, <1>7

(* A closed connection's copies of a command become strays. *)
LEMMA CloseKeepsCount ==
  ASSUME IType, InvCount, NEW k \in Conns, Closed(k), NEW d \in Cmds,
         Begun(d) \in Nat /\ Begun(d)' \in Nat /\ Begun(d)' >= Begun(d)
  PROVE  /\ IsFiniteSet(OnWire(d)')
         /\ executed'[d] + strays'[d] + Cardinality(OnWire(d)') <= Begun(d)'
  <1>1. executed[d] \in Nat /\ strays[d] \in Nat /\ executed'[d] = executed[d]
        /\ strays'[d] = strays[d] + Cardinality(Copies(k, d))
    BY DEF IType, WireTypes, Closed
  <1>2. IsFiniteSet(Copies(k, d)) /\ Cardinality(Copies(k, d)) \in Nat
    BY CopiesFinite DEF IType
  <1>3. sent'[k] = <<>> /\ \A m \in Conns \ {k} : sent'[m] = sent[m]
    BY DEF IType, WireTypes, Closed
  <1>4. Copies(k, d)' = {}
    <2>1. 1..Len(sent'[k]) = {}
      BY <1>3
    <2> QED
      BY <2>1 DEF Copies
  <1>5. \A m \in Conns \ {k} : Copies(m, d)' = Copies(m, d)
    BY <1>3 DEF Copies
  <1>6. OnWire(d)' \subseteq OnWire(d)
    BY <1>4, <1>5 DEF OnWire
  <1>7. \A i \in Copies(k, d) : <<k, i>> \in OnWire(d) \ OnWire(d)'
    <2> SUFFICES ASSUME NEW i \in Copies(k, d) PROVE <<k, i>> \in OnWire(d) \ OnWire(d)'
      OBVIOUS
    <2>1. i \in Nat
      BY DEF Copies
    <2> HIDE DEF Copies
    <2> QED
      BY <1>4, <2>1 DEF OnWire
  <1>8. IsFiniteSet(OnWire(d)) /\ executed[d] + strays[d] + Cardinality(OnWire(d)) <= Begun(d)
    BY DEF InvCount
  <1> HIDE DEF Copies, OnWire, Begun
  <1>9. IsFiniteSet(OnWire(d)') /\ Cardinality(Copies(k, d)) + Cardinality(OnWire(d)') <= Cardinality(OnWire(d))
    BY <1>2, <1>6, <1>7, <1>8, CloseCount
  <1>10. Cardinality(OnWire(d)) \in Nat /\ Cardinality(OnWire(d)') \in Nat
    BY <1>8, <1>9, FS_CardinalityType
  <1> QED
    BY <1>1, <1>2, <1>8, <1>9, <1>10

(* A written command is one copy more, and one attempt more. *)
LEMMA WriteKeepsCount ==
  ASSUME IType, InvCount, NEW c \in Cmds, writeCmd(c), NEW d \in Cmds,
         Begun(d) \in Nat /\ Begun(d)' \in Nat /\ Begun(d)' >= Begun(d)
  PROVE  /\ IsFiniteSet(OnWire(d)')
         /\ executed'[d] + strays'[d] + Cardinality(OnWire(d)') <= Begun(d)'
  <1>1. PICK k : k = cn[c]
    OBVIOUS
  <1>2. k \in Conns
    BY <1>1, HeldIsOpen DEF writeCmd, IType, HoldSteps
  <1>3. sent[k] \in Seq(Cmds \cup {Info}) /\ sent' = [sent EXCEPT ![k] = Append(sent[k], c)]
    BY <1>1, <1>2 DEF writeCmd, IType, WireTypes
  <1>4. sent'[k] = Append(sent[k], c) /\ \A m \in Conns \ {k} : sent'[m] = sent[m]
    BY <1>2, <1>3 DEF IType, WireTypes
  <1>5. \A m \in Conns \ {k} : Copies(m, d)' = Copies(m, d)
    BY <1>4 DEF Copies
  <1>6. Copies(k, d)' \subseteq Copies(k, d) \cup (IF d = c THEN {Len(sent[k]) + 1} ELSE {})
    BY <1>3, <1>4 DEF Copies
  <1>7. executed[d] \in Nat /\ strays[d] \in Nat /\ executed'[d] = executed[d] /\ strays'[d] = strays[d]
    BY DEF IType, WireTypes, writeCmd
  <1>8. CASE d # c
    <2>1. OnWire(d)' \subseteq OnWire(d)
      BY <1>5, <1>6, <1>8 DEF OnWire
    <2> QED
      BY <1>7, <2>1, CountFrame
  <1>9. CASE d = c
    <2>1. OnWire(d)' \subseteq OnWire(d) \cup {<<k, Len(sent[k]) + 1>>}
      BY <1>5, <1>6, <1>9 DEF OnWire
    <2>2. Begun(d)' = Begun(d) + 1
      BY <1>9 DEF Begun, writeCmd, Goto, IType, IPool, PoolTypes, CmdTypes
    <2>3. IsFiniteSet(OnWire(d)) /\ executed[d] + strays[d] + Cardinality(OnWire(d)) <= Begun(d)
      BY DEF InvCount
    <2> HIDE DEF OnWire, Begun
    <2>4. PICK D : D = OnWire(d) \cup {<<k, Len(sent[k]) + 1>>}
      OBVIOUS
    <2>5. IsFiniteSet(D) /\ Cardinality(D) <= Cardinality(OnWire(d)) + 1 /\ Cardinality(OnWire(d)) \in Nat
      <3>1. Cardinality(OnWire(d)) \in Nat
        BY <2>3, FS_CardinalityType
      <3>2. IsFiniteSet(D) /\ (Cardinality(D) = Cardinality(OnWire(d)) \/ Cardinality(D) = Cardinality(OnWire(d)) + 1)
        BY <2>3, <2>4, FS_AddElement
      <3> QED
        BY <3>1, <3>2
    <2>6. IsFiniteSet(OnWire(d)') /\ Cardinality(OnWire(d)') <= Cardinality(D)
          /\ Cardinality(OnWire(d)') \in Nat /\ Cardinality(D) \in Nat
      BY <2>1, <2>4, <2>5, SubsetCard
    <2> QED
      BY <1>7, <2>2, <2>3, <2>5, <2>6
  <1> QED
    BY <1>8, <1>9

(* An executed command is one copy less. *)
LEMMA ExecuteKeepsCount ==
  ASSUME IType, InvCount, NEW k \in Conns, Execute(k), NEW d \in Cmds,
         Begun(d) \in Nat /\ Begun(d)' \in Nat /\ Begun(d)' >= Begun(d)
  PROVE  /\ IsFiniteSet(OnWire(d)')
         /\ executed'[d] + strays'[d] + Cardinality(OnWire(d)') <= Begun(d)'
  <1>1. sent[k] \in Seq(Cmds \cup {Info}) /\ sent[k] # <<>> /\ sent' = [sent EXCEPT ![k] = Tail(sent[k])]
    BY DEF Execute, IType, WireTypes
  <1>2. sent'[k] = Tail(sent[k]) /\ \A m \in Conns \ {k} : sent'[m] = sent[m]
    BY <1>1 DEF IType, WireTypes
  <1>3. \A m \in Conns \ {k} : Copies(m, d)' = Copies(m, d)
    BY <1>2 DEF Copies
  <1>4. \A i \in Copies(k, d)' : i \in Nat /\ i >= 1 /\ i + 1 \in Copies(k, d)
    <2> SUFFICES ASSUME NEW i \in Copies(k, d)' PROVE i \in Nat /\ i >= 1 /\ i + 1 \in Copies(k, d)
      OBVIOUS
    <2>1. i \in 1..Len(sent'[k]) /\ sent'[k][i] = d
      BY DEF Copies
    <2>2. i + 1 \in 1..Len(sent[k]) /\ sent[k][i + 1] = d /\ i \in Nat /\ i >= 1
      <3>1. Len(sent[k]) \in Nat /\ Len(sent'[k]) = Len(sent[k]) - 1
        <4>1. sent[k] \in Seq(Cmds \cup {Info}) /\ sent[k] # <<>> /\ sent'[k] = Tail(sent[k])
          BY <1>1, <1>2
        <4>2. Len(sent[k]) \in Nat /\ Len(Tail(sent[k])) = Len(sent[k]) - 1
          BY <4>1, HeadTailProperties
        <4> QED
          BY <4>1, <4>2
      <3>2. \A j \in 1..(Len(sent[k]) - 1) : Tail(sent[k])[j] = sent[k][j + 1]
        BY <1>1
      <3>3. i \in 1..(Len(sent[k]) - 1) /\ i \in Nat /\ i >= 1 /\ i + 1 \in 1..Len(sent[k])
        BY <2>1, <3>1
      <3> QED
        BY <1>2, <2>1, <3>2, <3>3
    <2> QED
      BY <2>2 DEF Copies
  <1>5. OnWire(d)' \subseteq Conns \X Nat
    BY DEF OnWire
  <1>6. \A w \in OnWire(d)' : w[1] # k => w \in OnWire(d)
    BY <1>3 DEF OnWire
  <1>7. \A w \in OnWire(d)' : w[1] = k => w[2] >= 1 /\ <<k, w[2] + 1>> \in OnWire(d)
    BY <1>4 DEF OnWire
  <1>8. executed[d] \in Nat /\ strays[d] \in Nat /\ strays'[d] = strays[d]
        /\ (executed'[d] = executed[d] \/ (executed'[d] = executed[d] + 1 /\ Head(sent[k]) = d))
    BY DEF IType, WireTypes, Execute
  <1>9. Head(sent[k]) = d => <<k, 1>> \in OnWire(d)
    <2>1. 1 \in 1..Len(sent[k]) /\ Head(sent[k]) = sent[k][1]
      BY <1>1
    <2>2. Head(sent[k]) = d => 1 \in Copies(k, d)
      BY <2>1 DEF Copies
    <2> QED
      BY <2>2 DEF OnWire
  <1>10. IsFiniteSet(OnWire(d)) /\ executed[d] + strays[d] + Cardinality(OnWire(d)) <= Begun(d)
    BY DEF InvCount
  <1> HIDE DEF OnWire, Begun, Copies
  <1>11. /\ IsFiniteSet(OnWire(d)') /\ Cardinality(OnWire(d)') <= Cardinality(OnWire(d))
         /\ <<k, 1>> \in OnWire(d) => Cardinality(OnWire(d)') + 1 <= Cardinality(OnWire(d))
    BY <1>5, <1>6, <1>7, <1>10, ShiftCount
  <1>12. Cardinality(OnWire(d)) \in Nat /\ Cardinality(OnWire(d)') \in Nat
    BY <1>10, <1>11, FS_CardinalityType
  <1> QED
    BY <1>8, <1>9, <1>10, <1>11, <1>12

(* Every step keeps the count of copies within the attempts. *)
LEMMA CountStep == IType /\ InvCount /\ Next => InvCount'
  <1> SUFFICES ASSUME IType, InvCount, Next, NEW d \in Cmds
               PROVE  /\ IsFiniteSet(OnWire(d)')
                      /\ executed'[d] + strays'[d] + Cardinality(OnWire(d)') <= Begun(d)'
    BY DEF InvCount
  <1> DEFINE Goal == /\ IsFiniteSet(OnWire(d)')
                     /\ executed'[d] + strays'[d] + Cardinality(OnWire(d)') <= Begun(d)'
  <1>1. Begun(d) \in Nat /\ Begun(d)' \in Nat /\ Begun(d)' >= Begun(d)
    BY BegunGrows
  <1>2. WireTypes'
    BY WireTypesStep DEF IType
  <1>3. executed[d] \in Nat /\ strays[d] \in Nat /\ executed'[d] \in Nat /\ strays'[d] \in Nat
    BY <1>2 DEF IType, WireTypes
  <1>4. ASSUME OnWire(d)' \subseteq OnWire(d), executed'[d] + strays'[d] <= executed[d] + strays[d]
        PROVE  Goal
    BY <1>1, <1>3, <1>4, CountFrame
  <1>5. ASSUME UNCHANGED <<sent, executed, strays>> PROVE Goal
    <2>1. OnWire(d)' = OnWire(d)
      BY <1>5 DEF OnWire, Copies
    <2> QED
      BY <1>3, <1>4, <1>5, <2>1
  <1>6. ASSUME NEW c \in Cmds, initConnSkewed(c) PROVE Goal
    <2>1. PICK k : k = cn[c]
      OBVIOUS
    <2>2. PICK owed \in {<<Info>>, <<Info, Info>>} : sent' = [sent EXCEPT ![k] = owed]
      BY <1>6, <2>1 DEF initConnSkewed
    <2>3. \A i \in 1..Len(owed) : owed[i] # d
      BY NamesAssumption
    <2>4. \A m \in Conns : Copies(m, d)' \subseteq Copies(m, d)
      BY <2>2, <2>3 DEF Copies, IType, WireTypes
    <2>5. OnWire(d)' \subseteq OnWire(d)
      BY <2>4 DEF OnWire
    <2> QED
      BY <1>3, <1>4, <1>6, <2>5 DEF initConnSkewed
  <1>7. ASSUME NEW c \in Cmds, ExecuteStray(c) PROVE Goal
    <2>1. OnWire(d)' = OnWire(d)
      BY <1>7 DEF OnWire, Copies, ExecuteStray
    <2>2. executed'[d] + strays'[d] <= executed[d] + strays[d]
      BY <1>3, <1>7 DEF ExecuteStray, IType, WireTypes
    <2> QED
      BY <1>4, <2>1, <2>2
  <1>8. ASSUME RedisDown PROVE Goal
    <2>1. \A m \in Conns : sent'[m] = <<>>
      BY <1>8 DEF RedisDown
    <2>2. \A m \in Conns : 1..Len(sent'[m]) = {}
      BY <2>1
    <2>3. OnWire(d)' \subseteq OnWire(d)
      BY <2>2 DEF OnWire, Copies
    <2>4. executed'[d] + strays'[d] <= executed[d] + strays[d]
      BY <1>3, <1>8 DEF RedisDown
    <2> QED
      BY <1>4, <2>3, <2>4
  <1>9. ASSUME NEW c \in Cmds, writeCmd(c) PROVE Goal
    BY <1>1, <1>9, WriteKeepsCount
  <1>10. ASSUME NEW k \in Conns, Execute(k) PROVE Goal
    BY <1>1, <1>10, ExecuteKeepsCount
  <1>11. ASSUME NEW c \in Cmds, pc[c] \in HoldSteps, Closed(cn[c]) PROVE Goal
    BY <1>1, <1>11, HeldIsOpen, CloseKeepsCount DEF IType
  <1>12. ASSUME NEW c \in Cmds, CloseConn(c) \/ initConnFails(c) PROVE Goal
    BY <1>11, <1>12 DEF CloseConn, initConnFails, removeConn, HoldSteps
  <1>13. ASSUME NEW c \in Cmds, releaseConn(c) PROVE Goal
    BY <1>5, <1>11, <1>13 DEF releaseConn, removeConn, HoldSteps, wireVars
  <1>14. ASSUME NEW c \in Cmds, \/ process(c) \/ Cancel(c) \/ waitTurn(c) \/ waitTurnFails(c) \/ popIdle(c)
                \/ isHealthyConn(c) \/ dialGate(c) \/ newConn(c) \/ dialConnFails(c) \/ initConn(c) \/ readReply(c)
                \/ ioFails(c) \/ readTimeout(c) \/ freeTurn(c) \/ retryBackoff(c)
         PROVE  UNCHANGED <<sent, executed, strays>>
    BY <1>14 DEF process, Cancel, waitTurn, waitTurnFails, popIdle, isHealthyConn, dialGate, newConn, dialConnFails,
                 initConn, readReply, ioFails, readTimeout, freeTurn, retryBackoff, envVars, wireVars
  <1>15. tryDial \/ RedisBack => UNCHANGED <<sent, executed, strays>>
    BY DEF tryDial, RedisBack, envVars, wireVars
  <1> HIDE DEF Goal
  <1>16. Goal
    <2>1. ASSUME NEW c \in Cmds, process(c) \/ _process(c) \/ Cancel(c) \/ ExecuteStray(c) PROVE Goal
      <3>1. CASE \/ process(c) \/ Cancel(c) \/ waitTurn(c) \/ waitTurnFails(c) \/ popIdle(c)
                 \/ isHealthyConn(c) \/ dialGate(c) \/ newConn(c) \/ dialConnFails(c) \/ initConn(c) \/ readReply(c)
                 \/ ioFails(c) \/ readTimeout(c) \/ freeTurn(c) \/ retryBackoff(c)
        BY <1>5, <1>14, <3>1
      <3> QED
        BY <1>6, <1>7, <1>9, <1>12, <1>13, <2>1, <3>1 DEF _process
    <2>2. CASE tryDial \/ RedisBack
      BY <1>5, <1>15, <2>2
    <2> QED
      BY <1>8, <1>10, <2>1, <2>2 DEF Next
  <1> QED
    BY <1>16 DEF Goal

(* Store tells its caller that a SET was executed only when it was, unless *)
(* the connection was skewed by a failed SETINFO; and however often        *)
(* attempts time out and closed sockets deliver late, a SET is executed at *)
(* most once for each attempt.                                             *)
THEOREM OkMeansExecuted == Spec => []OkIsExecuted
  <1>1. Init => InvCount
    <2> SUFFICES ASSUME Init, NEW c \in Cmds
                 PROVE  IsFiniteSet(OnWire(c)) /\ executed[c] + strays[c] + Cardinality(OnWire(c)) <= Begun(c)
      BY DEF InvCount
    <2>1. \A k \in Conns : 1..Len(sent[k]) = {}
      BY DEF Init
    <2>2. OnWire(c) = {}
      BY <2>1 DEF OnWire, Copies
    <2>3. Begun(c) = 0 /\ executed[c] = 0 /\ strays[c] = 0
      BY DEF Init, Begun
    <2> QED
      BY <2>2, <2>3, FS_EmptySet
  <1>2. ASSUME IType, InvCount, [Next]_vars PROVE InvCount'
    <2>1. CASE Next
      BY <1>2, <2>1, CountStep
    <2>2. CASE UNCHANGED vars
      BY <1>2, <2>2 DEF InvCount, OnWire, Copies, Begun, vars, cmdVars, envVars, wireVars
    <2> QED
      BY <1>2, <2>1, <2>2
  <1>3. ASSUME IWire, InvCount PROVE OkIsExecuted
    <2> SUFFICES ASSUME NEW c \in Cmds
                 PROVE  /\ pc[c] = "done" /\ err[c] = "ok" /\ executed[c] = 0 => c \in misled
                        /\ executed[c] + strays[c] <= attempt[c] + 1
      BY DEF OkIsExecuted
    <2>1. pc[c] = "done" /\ err[c] = "ok" /\ executed[c] = 0 => c \in misled
      BY <1>3 DEF IWire, InvResult
    <2>2. attempt[c] \in Nat /\ executed[c] \in Nat /\ strays[c] \in Nat
      BY <1>3, SizeAssumption DEF IWire, IType, CmdTypes, WireTypes
    <2>3. Begun(c) \in Nat /\ Begun(c) <= attempt[c] + 1
      BY <2>2 DEF Begun
    <2>4. IsFiniteSet(OnWire(c)) /\ executed[c] + strays[c] + Cardinality(OnWire(c)) <= Begun(c)
      BY <1>3 DEF InvCount
    <2> HIDE DEF OnWire, Begun
    <2>5. Cardinality(OnWire(c)) \in Nat
      BY <2>4, FS_CardinalityType
    <2>6. executed[c] + strays[c] <= attempt[c] + 1
      BY <2>2, <2>3, <2>4, <2>5
    <2> QED
      BY <2>1, <2>6
  <1> QED
    BY <1>1, <1>2, <1>3, TypesInvariant, WireInvariant, PTL DEF Spec
=============================================================================
