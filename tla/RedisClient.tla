------------------------------ MODULE RedisClient ------------------------------
(***************************************************************************)
(* The go-redis client through which the Telemetry Service stores drone    *)
(* states: its connection pool (internal/pool/pool.go) and the retry loop  *)
(* of a command (redis.go).  Goroutines take a turn, then an idle          *)
(* connection or a new one, send their SET, wait for the reply and give    *)
(* the connection back.  The client has the default options, except that   *)
(* PoolSize and MaxRetries are parameters: no MinIdleConns, MaxIdleConns   *)
(* or MaxActiveConns, never closed.                                        *)
(***************************************************************************)
EXTENDS Integers, Sequences, FiniteSets

CONSTANTS
  Cmds,         \* the SET commands, one per ingest request
  Conns,        \* identities of open connections
  Info,         \* a CLIENT SETINFO, sent by initConn
  None,         \* no connection
  PoolSize,     \* 10 per CPU in the code
  MaxRetries,   \* 3 in the code
  MaxFaults     \* bound on outages, clients that leave and lost SETINFO replies

ASSUME NamesAssumption == Info \notin Cmds /\ None \notin Conns
ASSUME SizeAssumption == PoolSize \in Nat \ {0} /\ MaxRetries \in Nat /\ MaxFaults \in Nat

VARIABLES
  queue,          \* the number of turns taken
  conns,          \* the open connections of the pool
  pooled,         \* those that may go back to the pool
  idleConns,      \* the idle ones, used from the end
  poolSize,
  dialErrorsNum,
  tryDials,       \* running tryDial goroutines
  pc,             \* the step of each command's goroutine
  cn,             \* the connection it holds
  attempt,
  err,            \* how its last attempt went
  cancelled,      \* commands whose HTTP client has left
  up,             \* Redis accepts connections
  broken,         \* connections Redis has closed
  sent,           \* what each connection carries to Redis
  arrived,        \* replies in each socket
  rd,             \* replies in each connection's read buffer
  strays,         \* SETs of each command left on closed connections
  executed,       \* how often each SET was executed
  overdue,        \* history: commands with a reply that missed its deadline
  skewed,         \* history: connections that were used with replies owed
  misled,         \* history: commands sent on such a connection
  faults

heldVars == <<conns, pooled, idleConns, poolSize>>
poolVars == <<queue, heldVars>>
dialVars == <<dialErrorsNum, tryDials>>
cmdVars  == <<pc, cn, attempt, err, cancelled>>
wireVars == <<broken, sent, arrived, rd, strays, executed>>
histVars == <<overdue, skewed, misled>>
envVars  == <<up, wireVars, histVars, faults>>
vars == <<poolVars, dialVars, cmdVars, envVars>>

Step == {"unsent", "turn", "pop", "check", "gate", "dial", "init", "write", "read",
         "release", "free", "backoff", "done"}

(* "ok": the command has its reply; "retry" and "final" are the errors for *)
(* which shouldRetry says yes and no; the error of a "bad" one also makes  *)
(* isBadConn true.                                                         *)
Outcome == {"none", "ok", "retry", "final", "bad"}

(* A reply, of what, and the outcome of the command that reads it: an      *)
(* error reply is retried (LOADING), retried on another connection         *)
(* (READONLY, for which isBadConn is true), or final.                      *)
Reply == [of : Cmds \cup {Info}, means : Outcome \ {"none"}]

Fault == faults < MaxFaults /\ faults' = faults + 1

Goto(c, s) == pc' = [pc EXCEPT ![c] = s]
Ends(c, s, e) == Goto(c, s) /\ err' = [err EXCEPT ![c] = e]

Copies(k, c) == {i \in 1..Len(sent[k]) : sent[k][i] = c}

(* close(2): what the socket carries may still reach Redis. *)
Closed(k) ==
  /\ strays' = [c \in Cmds |-> strays[c] + Cardinality(Copies(k, c))]
  /\ sent' = [sent EXCEPT ![k] = <<>>]
  /\ arrived' = [arrived EXCEPT ![k] = <<>>]
  /\ rd' = [rd EXCEPT ![k] = <<>>]
  /\ broken' = broken \ {k}
  /\ skewed' = skewed \ {k}
  /\ UNCHANGED executed

(* Mutant: the connection is closed but still counted. *)
removeConnUncounted(k) ==
  /\ conns' = conns \ {k}
  /\ pooled' = pooled \ {k}
  /\ UNCHANGED poolSize
  /\ Closed(k)

removeConn(k) ==
  /\ conns' = conns \ {k}
  /\ pooled' = pooled \ {k}
  /\ poolSize' = IF k \in pooled THEN poolSize - 1 ELSE poolSize
  /\ Closed(k)

-----------------------------------------------------------------------------
Init ==
  /\ queue = 0 /\ conns = {} /\ pooled = {} /\ idleConns = <<>> /\ poolSize = 0
  /\ dialErrorsNum = 0 /\ tryDials = 0
  /\ pc = [c \in Cmds |-> "unsent"]
  /\ cn = [c \in Cmds |-> None]
  /\ attempt = [c \in Cmds |-> 0]
  /\ err = [c \in Cmds |-> "none"]
  /\ cancelled = {}
  /\ up \in BOOLEAN
  /\ broken = {}
  /\ sent = [k \in Conns |-> <<>>]
  /\ arrived = [k \in Conns |-> <<>>]
  /\ rd = [k \in Conns |-> <<>>]
  /\ strays = [c \in Cmds |-> 0]
  /\ executed = [c \in Cmds |-> 0]
  /\ overdue = {} /\ skewed = {} /\ misled = {}
  /\ faults = 0

process(c) ==
  /\ pc[c] = "unsent"
  /\ Goto(c, "turn")
  /\ UNCHANGED <<poolVars, dialVars, cn, attempt, err, cancelled, envVars>>

-----------------------------------------------------------------------------
(* ConnPool.Get.                                                           *)

TurnFree == queue < PoolSize

waitTurn(c) ==
  /\ pc[c] = "turn"
  /\ TurnFree
  /\ queue' = queue + 1
  /\ Goto(c, "pop")
  /\ UNCHANGED <<heldVars, dialVars, cn, attempt, err, cancelled, envVars>>

(* PoolTimeout passes with every turn taken, or the client has left; no    *)
(* turn is held and neither error is retried.                              *)
waitTurnFails(c) ==
  /\ pc[c] = "turn"
  /\ ~TurnFree \/ c \in cancelled
  /\ Ends(c, "done", "final")
  /\ UNCHANGED <<poolVars, dialVars, cn, attempt, cancelled, envVars>>

(* Mutant: the connection stays in the list it was taken from. *)
idleRestKept == idleConns

idleRest == SubSeq(idleConns, 1, Len(idleConns) - 1)

popIdle(c) ==
  /\ pc[c] = "pop"
  /\ \/ idleConns = <<>> /\ Goto(c, "gate") /\ UNCHANGED <<idleConns, cn>>
     \/ /\ idleConns # <<>>
        /\ cn' = [cn EXCEPT ![c] = idleConns[Len(idleConns)]]
        /\ idleConns' = idleRest
        /\ Goto(c, "check")
  /\ UNCHANGED <<queue, conns, pooled, poolSize, dialVars, attempt, err, cancelled,
                 envVars>>

(* connCheck finds neither the end of the stream nor an unread byte; an    *)
(* idle connection was initialized.                                        *)
isHealthyConn(c) ==
  /\ pc[c] = "check"
  /\ cn[c] \notin broken /\ arrived[cn[c]] = <<>>
  /\ Goto(c, "write")
  /\ UNCHANGED <<poolVars, dialVars, cn, attempt, err, cancelled, envVars>>

(* CloseConn: unread bytes, a closed socket, or idle for 30 minutes.  The  *)
(* turn is kept for the next try.                                          *)
CloseConn(c) ==
  /\ pc[c] = "check"
  /\ removeConn(cn[c])
  /\ cn' = [cn EXCEPT ![c] = None]
  /\ Goto(c, "pop")
  /\ UNCHANGED <<queue, idleConns, dialVars, attempt, err, cancelled, up, overdue,
                 misled, faults>>

(* dialConn while PoolSize dials have failed: the last error, which is     *)
(* retried unless it was a timeout.                                        *)
dialGate(c) ==
  /\ pc[c] = "gate"
  /\ \/ dialErrorsNum < PoolSize /\ Goto(c, "dial") /\ UNCHANGED err
     \/ dialErrorsNum >= PoolSize /\ \E e \in {"retry", "final"} : Ends(c, "free", e)
  /\ UNCHANGED <<poolVars, dialVars, cn, attempt, cancelled, envVars>>

(* newConn: a connection beyond PoolSize would not be pooled. *)
newConn(c) ==
  /\ pc[c] = "dial"
  /\ up
  /\ Conns \ conns # {}
  /\ LET k == CHOOSE k \in Conns : k \notin conns IN
       /\ conns' = conns \cup {k}
       /\ pooled' = IF poolSize >= PoolSize THEN pooled ELSE pooled \cup {k}
       /\ poolSize' = IF poolSize >= PoolSize THEN poolSize ELSE poolSize + 1
       /\ cn' = [cn EXCEPT ![c] = k]
  /\ Goto(c, "init")
  /\ UNCHANGED <<queue, idleConns, dialVars, attempt, err, cancelled, envVars>>

(* Mutant: tryDial is started one failure after the gate has closed. *)
StartsTryDialLate == dialErrorsNum = PoolSize

StartsTryDial == dialErrorsNum + 1 = PoolSize

(* The dial is refused, cancelled with its request, or times out, which is *)
(* not retried.  All count, until tryDial succeeds.                        *)
dialConnFails(c) ==
  /\ pc[c] = "dial"
  /\ dialErrorsNum' = dialErrorsNum + 1
  /\ tryDials' = IF StartsTryDial THEN tryDials + 1 ELSE tryDials
  /\ \/ ~up /\ Ends(c, "free", "retry")
     \/ c \in cancelled /\ Ends(c, "free", "retry")
     \/ Ends(c, "free", "final")
  /\ UNCHANGED <<poolVars, cn, attempt, cancelled, envVars>>

(* tryDial, once a second until Redis answers. *)
tryDial ==
  /\ tryDials > 0 /\ up
  /\ dialErrorsNum' = 0
  /\ tryDials' = tryDials - 1
  /\ UNCHANGED <<poolVars, cmdVars, envVars>>

-----------------------------------------------------------------------------
(* initConn, the owner's exchange of HELLO and CLIENT SETINFO.             *)

(* An error reply to HELLO or to SETINFO does not matter. *)
initConn(c) ==
  /\ pc[c] = "init"
  /\ cn[c] \notin broken
  /\ Goto(c, "write")
  /\ UNCHANGED <<poolVars, dialVars, cn, attempt, err, cancelled, envVars>>

(* The error of the SETINFO pipeline is ignored: after its timeout one or  *)
(* both replies are still owed when the connection is used.                *)
initConnSkewed(c) ==
  /\ pc[c] = "init"
  /\ cn[c] \notin broken
  /\ \E owed \in {<<Info>>, <<Info, Info>>} : sent' = [sent EXCEPT ![cn[c]] = owed]
  /\ Fault
  /\ skewed' = skewed \cup {cn[c]}
  /\ Goto(c, "write")
  /\ UNCHANGED <<poolVars, dialVars, cn, attempt, err, cancelled, up, broken,
                 arrived, rd, strays, executed, overdue, misled>>

(* Mutant: after a failed HELLO the next connection is tried at once. *)
initConnFailsAgain(c) ==
  /\ pc[c] = "init"
  /\ removeConn(cn[c])
  /\ cn' = [cn EXCEPT ![c] = None]
  /\ \/ cn[c] \in broken /\ Goto(c, "gate")
     \/ cn[c] \notin broken /\ Goto(c, "gate")
  /\ UNCHANGED <<queue, idleConns, dialVars, attempt, err, cancelled, up, overdue,
                 misled, faults>>

(* HELLO fails: _getConn removes the connection; of its unwrapped errors a *)
(* lost connection is retried, a timeout is not.                           *)
initConnFails(c) ==
  /\ pc[c] = "init"
  /\ removeConn(cn[c])
  /\ cn' = [cn EXCEPT ![c] = None]
  /\ \/ cn[c] \in broken /\ Ends(c, "free", "retry")
     \/ cn[c] \notin broken /\ Ends(c, "free", "final")
  /\ UNCHANGED <<queue, idleConns, dialVars, attempt, cancelled, up, overdue, misled,
                 faults>>

-----------------------------------------------------------------------------
(* _process with a connection.                                             *)

(* Mutant: the command does not wait for its reply. *)
writeCmdOnly(c) ==
  /\ pc[c] = "write"
  /\ cn[c] \notin broken
  /\ sent' = [sent EXCEPT ![cn[c]] = Append(@, c)]
  /\ misled' = IF cn[c] \in skewed THEN misled \cup {c} ELSE misled
  /\ Ends(c, "release", "ok")
  /\ UNCHANGED <<poolVars, dialVars, cn, attempt, cancelled, up, broken, arrived, rd,
                 strays, executed, overdue, skewed, faults>>

writeCmd(c) ==
  /\ pc[c] = "write"
  /\ cn[c] \notin broken
  /\ sent' = [sent EXCEPT ![cn[c]] = Append(@, c)]
  /\ misled' = IF cn[c] \in skewed THEN misled \cup {c} ELSE misled
  /\ Goto(c, "read")
  /\ UNCHANGED <<poolVars, dialVars, cn, attempt, err, cancelled, up, broken,
                 arrived, rd, strays, executed, overdue, skewed, faults>>

(* The first reply of the stream, whatever it answers.  A read takes all   *)
(* that has arrived into the buffer.                                       *)
readReply(c) ==
  /\ pc[c] = "read"
  /\ LET k == cn[c]
         all == IF rd[k] # <<>> THEN rd[k] ELSE arrived[k]
     IN /\ all # <<>>
        /\ rd' = [rd EXCEPT ![k] = Tail(all)]
        /\ arrived' = IF rd[k] # <<>> THEN arrived ELSE [arrived EXCEPT ![k] = <<>>]
        /\ Ends(c, "release", Head(all).means)
  /\ UNCHANGED <<poolVars, dialVars, cn, attempt, cancelled, up, broken, sent,
                 strays, executed, histVars, faults>>

(* A write or a read fails on a connection that Redis has closed, or the   *)
(* write misses its WriteTimeout: what was sent of the command is not a    *)
(* whole one, so Redis never executes it.                                  *)
ioFails(c) ==
  /\ pc[c] = "write" \/ (pc[c] = "read" /\ cn[c] \in broken)
  /\ Ends(c, "release", "bad")
  /\ UNCHANGED <<poolVars, dialVars, cn, attempt, cancelled, envVars>>

(* ReadTimeout: retried, since a SET has no timeout of its own. *)
readTimeout(c) ==
  /\ pc[c] = "read"
  /\ rd[cn[c]] = <<>> /\ arrived[cn[c]] = <<>>
  /\ Ends(c, "release", "bad")
  /\ overdue' = overdue \cup {c}
  /\ UNCHANGED <<poolVars, dialVars, cn, attempt, cancelled, up, wireVars, skewed,
                 misled, faults>>

(* Mutant: allowTimeout, a connection is kept after a missed deadline. *)
isBadConnAllowTimeout(c) == err[c] = "bad" /\ cn[c] \in broken

isBadConn(c) == err[c] = "bad"

(* Put, or Remove for a bad connection, one with a reply in its buffer and *)
(* one that is not pooled.                                                 *)
releaseConn(c) ==
  /\ pc[c] = "release"
  /\ LET k == cn[c] IN
       \/ /\ isBadConn(c) \/ rd[k] # <<>> \/ k \notin pooled
          /\ removeConn(k)
          /\ UNCHANGED idleConns
       \/ /\ ~(isBadConn(c) \/ rd[k] # <<>> \/ k \notin pooled)
          /\ idleConns' = Append(idleConns, k)
          /\ UNCHANGED <<conns, pooled, poolSize, wireVars, skewed>>
  /\ cn' = [cn EXCEPT ![c] = None]
  /\ Goto(c, "free")
  /\ UNCHANGED <<queue, dialVars, attempt, err, cancelled, up, overdue, misled, faults>>

(* freeTurn, then process decides on another attempt. *)
freeTurn(c) ==
  /\ pc[c] = "free"
  /\ queue' = queue - 1
  /\ Goto(c, IF err[c] \in {"retry", "bad"} /\ attempt[c] < MaxRetries
              THEN "backoff" ELSE "done")
  /\ UNCHANGED <<heldVars, dialVars, cn, attempt, err, cancelled, envVars>>

(* Sleep before the next attempt, cut short when the client leaves. *)
retryBackoff(c) ==
  /\ pc[c] = "backoff"
  /\ \/ attempt' = [attempt EXCEPT ![c] = @ + 1] /\ Ends(c, "turn", "none")
     \/ c \in cancelled /\ Goto(c, "done") /\ UNCHANGED <<attempt, err>>
  /\ UNCHANGED <<poolVars, dialVars, cn, cancelled, envVars>>

-----------------------------------------------------------------------------
(* The environment.                                                        *)

(* The request's context is done; reads and writes do not look at it. *)
Cancel(c) ==
  /\ pc[c] \notin {"unsent", "done"}
  /\ c \notin cancelled
  /\ Fault
  /\ cancelled' = cancelled \cup {c}
  /\ UNCHANGED <<poolVars, dialVars, pc, cn, attempt, err, up, wireVars, histVars>>

(* Redis answers in the order it received; an error reply means that the   *)
(* SET was not executed.                                                   *)
Execute(k) ==
  /\ k \in conns \ broken
  /\ sent[k] # <<>>
  /\ \E r \in Reply :
       /\ r.of = Head(sent[k])
       /\ r.of = Info => r.means = "ok"
       /\ arrived' = [arrived EXCEPT ![k] = Append(@, r)]
       /\ executed' = [c \in Cmds |-> executed[c] + IF c = r.of /\ r.means = "ok" THEN 1 ELSE 0]
  /\ sent' = [sent EXCEPT ![k] = Tail(@)]
  /\ UNCHANGED <<poolVars, dialVars, cmdVars, up, broken, rd, strays, histVars, faults>>

ExecuteStray(c) ==
  /\ strays[c] > 0
  /\ strays' = [strays EXCEPT ![c] = @ - 1]
  /\ executed' = [executed EXCEPT ![c] = @ + 1]
  /\ UNCHANGED <<poolVars, dialVars, cmdVars, up, broken, sent, arrived, rd,
                 histVars, faults>>

RedisDown ==
  /\ up
  /\ Fault
  /\ up' = FALSE
  /\ broken' = conns
  /\ sent' = [k \in Conns |-> <<>>]
  /\ strays' = [c \in Cmds |-> 0]
  /\ UNCHANGED <<poolVars, dialVars, cmdVars, arrived, rd, executed, histVars>>

RedisBack ==
  /\ ~up
  /\ up' = TRUE
  /\ UNCHANGED <<poolVars, dialVars, cmdVars, wireVars, histVars, faults>>

-----------------------------------------------------------------------------
_process(c) ==
  \/ waitTurn(c) \/ waitTurnFails(c)
  \/ popIdle(c) \/ isHealthyConn(c) \/ CloseConn(c)
  \/ dialGate(c) \/ newConn(c) \/ dialConnFails(c)
  \/ initConn(c) \/ initConnSkewed(c) \/ initConnFails(c)
  \/ writeCmd(c) \/ readReply(c) \/ ioFails(c) \/ readTimeout(c)
  \/ releaseConn(c) \/ freeTurn(c) \/ retryBackoff(c)

Next ==
  \/ \E c \in Cmds : process(c) \/ _process(c) \/ Cancel(c) \/ ExecuteStray(c)
  \/ \E k \in Conns : Execute(k)
  \/ tryDial \/ RedisDown \/ RedisBack

Spec == Init /\ [][Next]_vars

(* Goroutines run; dials, reads, writes and the wait for a turn all have   *)
(* deadlines, so no step waits for Redis; outages end.                     *)
Fairness ==
  /\ \A c \in Cmds : WF_vars(_process(c))
  /\ WF_vars(tryDial) /\ WF_vars(RedisBack)

FairSpec == Spec /\ Fairness

-----------------------------------------------------------------------------
(* Properties.                                                             *)

Holding(c) == pc[c] \in {"check", "init", "write", "read", "release"}
HasTurn(c) == Holding(c) \/ pc[c] \in {"pop", "gate", "dial", "free"}
InFlight(c) == strays[c] > 0 \/ \E k \in conns : Copies(k, c) # {}

(* The type of every variable. *)
TypeOK ==
  /\ queue \in 0..PoolSize /\ poolSize \in 0..PoolSize
  /\ conns \subseteq Conns /\ pooled \subseteq conns /\ broken \subseteq conns
  /\ skewed \subseteq conns
  /\ idleConns \in Seq(conns)
  /\ dialErrorsNum \in Nat /\ tryDials \in Nat
  /\ pc \in [Cmds -> Step] /\ err \in [Cmds -> Outcome]
  /\ cn \in [Cmds -> Conns \cup {None}]
  /\ \A c \in Cmds : Holding(c) <=> cn[c] # None
  /\ attempt \in [Cmds -> 0..MaxRetries]
  /\ cancelled \subseteq Cmds /\ overdue \subseteq Cmds /\ misled \subseteq Cmds
  /\ up \in BOOLEAN /\ faults \in 0..MaxFaults
  /\ sent \in [Conns -> Seq(Cmds \cup {Info})]
  /\ arrived \in [Conns -> Seq(Reply)] /\ rd \in [Conns -> Seq(Reply)]
  /\ strays \in [Cmds -> Nat] /\ executed \in [Cmds -> Nat]

(* A connection of the pool is idle or has exactly one command, never      *)
(* both: no two goroutines write to one socket (popIdle, Put, Remove).     *)
OneOwner ==
  \A k \in conns :
    Cardinality({i \in 1..Len(idleConns) : idleConns[i] = k})
      + Cardinality({c \in Cmds : cn[c] = k}) = 1

(* The pool's counters tell the truth in every interleaving, and dials     *)
(* under way have room: no connection is ever opened beyond PoolSize, so   *)
(* the branch of newConn that leaves one unpooled is never taken (newConn, *)
(* removeConn, freeTurn after the connection is given back).               *)
PoolBounded ==
  /\ queue = Cardinality({c \in Cmds : HasTurn(c)})
  /\ poolSize = Cardinality(pooled) /\ pooled = conns
  /\ poolSize + Cardinality({c \in Cmds : pc[c] \in {"gate", "dial"}}) <= PoolSize

(* While the gate refuses every dial some goroutine is trying to open it   *)
(* (dialConn, tryDial).                                                    *)
GateHasDialer == dialErrorsNum >= PoolSize => tryDials > 0

(* Store returns nil only for a SET that Redis executed, unless its        *)
(* connection was used after a failed SETINFO (initConn), the one way a    *)
(* command can read another's reply; and a SET is executed at most once    *)
(* per attempt, whatever closed connections still carry.                   *)
OkIsExecuted ==
  \A c \in Cmds :
    /\ pc[c] = "done" /\ err[c] = "ok" /\ executed[c] = 0 => c \in misled
    /\ executed[c] + strays[c] <= attempt[c] + 1

(* A command that is over can still be executed only if a reply of it      *)
(* missed its deadline or its connection was out of step: what             *)
(* TelemetryService assumes of the SETs that Redis executes late.          *)
LateOnlyIfOverdue ==
  \A c \in Cmds : pc[c] = "done" /\ InFlight(c) => c \in overdue \cup misled

(* Every command ends, with Redis down, restarting or slow to answer.      *)
CommandsEnd == \A c \in Cmds : pc[c] = "turn" ~> pc[c] = "done"
=============================================================================
