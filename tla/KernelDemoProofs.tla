--------------------------- MODULE KernelDemoProofs ---------------------------
(***************************************************************************)
(* Proofs about the demo modules of src/kernel-module/ that live on their  *)
(* own, one after the other, and about the run that looks at all three.    *)
(***************************************************************************)
EXTENDS KernelDemos, FiniteSetTheorems, TLAPS

-------------------------------------------------------------------------------
(***************************************************************************)
(* The semaphore demo, for any number of racers.                           *)
(*                                                                         *)
(* The argument: the semaphore is free exactly when nobody holds it (Lock).*)
(* That only aborted racers return -1 needs more: the abort must stand,    *)
(* so no racer may be about to write action (Phase); for that the racer    *)
(* that completes the rendezvous must know that all racers were started,   *)
(* which is a counting argument (ReadyCounted, Started).  The text of the  *)
(* module stays because the reference count is the number of racers that   *)
(* have not put theirs, plus one while insmod runs init (RefsCounted).     *)
(***************************************************************************)

\* The racers counted by ready_count, and those that hold a module reference.
Readied == {w \in Workers : pc[w] \notin {"none", "ready"}}
Holding == {w \in Workers : pc[w] \in InText \ {"return"}}

\* Where a racer can be before anything was written to action, and after an abort.
BeforeRace == {"none", "ready", "start", "spin"}
Aborted == {"none", "ready", "spin", "check", "put", "return", "done", "oops"}

Started == \A w \in Workers : pc[w] = "none" <=> w >= i

Lock ==
  /\ sem_count \in {0, 1}
  /\ \A w \in Workers : pc[w] \in InCriticalSection => sem_count = 0
  /\ \A v, w \in Workers :
       (pc[v] \in InCriticalSection /\ pc[w] \in InCriticalSection) => v = w
  /\ mod # "freed" =>
       holder_count = (IF \E w \in Workers : pc[w] = "sleep" THEN 1 ELSE 0)

\* The wait list holds waiting racers only.
Waiters ==
  mod # "freed" => \A k \in DOMAIN wait_list : pc[wait_list[k]] = "waiting"

Phase ==
  /\ action = "WAIT" => \A w \in Workers : pc[w] \in BeforeRace \cup {"oops"}
  /\ action = "ABORT" => mod \in {"failed", "freed"} /\ \A w \in Workers : pc[w] \in Aborted
  /\ mod = "failed" => action = "ABORT" /\ i < NumWorkers
  /\ mod = "init" /\ i < NumWorkers => action = "WAIT"
  /\ mod = "live" => i = NumWorkers
  /\ mod = "unloaded" => i = 0
  /\ \A w \in Workers : /\ pc[w] = "start" => i = NumWorkers
                        /\ pc[w] = "oops" => mod = "freed"
                        /\ ret[w] = -1 => action = "ABORT"

ReadyCounted == mod # "freed" => ready_count = Cardinality(Readied)

RefsCounted ==
  /\ mod \in {"init", "failed"} => modref = Cardinality(Holding) + 1
  /\ mod \in {"unloaded", "live"} => modref = Cardinality(Holding)
  /\ mod = "freed" /\ action # "ABORT" =>
       \A w \in Workers : pc[w] \in {"return", "done", "oops"}

SemaphoreInv == TypeOK /\ Started /\ Lock /\ Waiters /\ Phase /\ ReadyCounted /\ RefsCounted

-------------------------------------------------------------------------------
(* Counting.                                                               *)

\* Sets of racers are finite, and smaller than NumWorkers unless they have them all.
LEMMA RacersFinite ==
  ASSUME NEW S \in SUBSET Workers
  PROVE  /\ IsFiniteSet(S)
         /\ Cardinality(S) \in Nat
         /\ Cardinality(S) <= NumWorkers
         /\ Cardinality(S) = NumWorkers => S = Workers
<1>1. IsFiniteSet(Workers) /\ Cardinality(Workers) = NumWorkers
  BY NumWorkersAssumption, FS_Interval DEF Workers
<1>2. /\ IsFiniteSet(S) /\ Cardinality(S) <= Cardinality(Workers)
      /\ Cardinality(Workers) = Cardinality(S) => Workers = S
  BY <1>1, FS_Subset
<1>3. Cardinality(S) \in Nat
  BY <1>2, FS_CardinalityType
<1> QED BY <1>1, <1>2, <1>3

\* One racer joins a set.
LEMMA RacerJoins ==
  ASSUME NEW S \in SUBSET Workers, NEW w \in Workers, w \notin S
  PROVE  /\ Cardinality(S \cup {w}) = Cardinality(S) + 1
         /\ Cardinality(S) < NumWorkers
<1>1. IsFiniteSet(S) /\ Cardinality(S) \in Nat
  BY RacersFinite
<1>2. Cardinality(S \cup {w}) = Cardinality(S) + 1
  BY <1>1, FS_AddElement
<1>3. S \cup {w} \in SUBSET Workers
  OBVIOUS
<1>4. Cardinality(S \cup {w}) <= NumWorkers
  BY <1>3, RacersFinite
<1> QED BY <1>1, <1>2, <1>4, NumWorkersAssumption

\* One racer leaves it.
LEMMA RacerLeaves ==
  ASSUME NEW S \in SUBSET Workers, NEW w \in S
  PROVE  /\ Cardinality(S \ {w}) = Cardinality(S) - 1
         /\ Cardinality(S) >= 1
<1>1. w \in Workers /\ S \ {w} \in SUBSET Workers /\ w \notin S \ {w}
  OBVIOUS
<1>2. Cardinality((S \ {w}) \cup {w}) = Cardinality(S \ {w}) + 1
  BY <1>1, RacerJoins
<1>3. (S \ {w}) \cup {w} = S
  OBVIOUS
<1>4. Cardinality(S \ {w}) \in Nat
  BY <1>1, RacersFinite
<1>5. Cardinality(S) = Cardinality(S \ {w}) + 1
  BY <1>2, <1>3
<1> QED BY <1>4, <1>5

-------------------------------------------------------------------------------
(* SemaphoreInv is inductive.                                                      *)

LEMMA SemaphoreInitInv == Init => SemaphoreInv
<1> SUFFICES ASSUME Init PROVE SemaphoreInv
  OBVIOUS
<1>1. Readied = {} /\ Holding = {}
  BY DEF Init, Readied, Holding, InText
<1>2. Cardinality({}) = 0
  BY FS_EmptySet
<1>3. TypeOK
  BY NumWorkersAssumption DEF Init, TypeOK, InText
<1>4. Started /\ Lock /\ Waiters /\ Phase
  BY NumWorkersAssumption DEF Init, Started, Lock, Waiters, Phase, Workers, InCriticalSection, BeforeRace
<1>5. ReadyCounted /\ RefsCounted
  BY <1>1, <1>2 DEF Init, ReadyCounted, RefsCounted
<1> QED BY <1>3, <1>4, <1>5 DEF SemaphoreInv

\* A racer that becomes ready joins Readied; if that makes NumWorkers, all were started.
LEMMA ReadyJoins ==
  ASSUME SemaphoreInv, NEW w \in Workers, Ready(w)
  PROVE  /\ Readied' = Readied \cup {w}
         /\ ready_count' = Cardinality(Readied \cup {w})
         /\ ready_count' \in 0 .. NumWorkers
         /\ ready_count' = AllReady => i = NumWorkers
<1>1. w \notin Readied /\ Readied \in SUBSET Workers
  BY DEF Ready, At, Readied
<1>2. ready_count = Cardinality(Readied) /\ ready_count' = ready_count + 1
  BY DEF SemaphoreInv, ReadyCounted, Ready, At
<1>3. ready_count' = Cardinality(Readied \cup {w})
  BY <1>1, <1>2, RacerJoins
<1>4. Readied \cup {w} \in SUBSET Workers
  BY <1>1
<1>5. ready_count' \in 0 .. NumWorkers
  BY <1>3, <1>4, RacersFinite, NumWorkersAssumption
<1>6. ASSUME ready_count' = AllReady PROVE i = NumWorkers
  <2>1. Readied \cup {w} = Workers
    BY <1>3, <1>4, <1>6, RacersFinite DEF AllReady
  <2>2. NumWorkers - 1 \in Workers
    BY NumWorkersAssumption DEF Workers
  <2>3. pc[NumWorkers - 1] # "none"
    BY <2>1, <2>2 DEF Readied, Ready, At
  <2> QED BY <2>2, <2>3, NumWorkersAssumption DEF SemaphoreInv, Started, TypeOK
<1>7. Readied' = Readied \cup {w}
  BY DEF Readied, Ready, At, Goto, SemaphoreInv, TypeOK
<1> QED BY <1>3, <1>5, <1>6, <1>7

\* Before insmod no racer exists.
LEMMA NoneBeforeInsmod ==
  ASSUME SemaphoreInv, mod = "unloaded", NEW w \in Workers
  PROVE  pc[w] = "none"
BY DEF SemaphoreInv, Phase, Started, Workers

\* up() by w moves w on and wakes at most one racer, which was waiting; if it wakes one
\* the semaphore stays taken.
LEMMA UpWakesOne ==
  ASSUME SemaphoreInv, NEW w \in Workers, Up(w)
  PROVE  \E woken \in SUBSET Workers :
           /\ \A u, v \in woken : u = v
           /\ \A v \in woken : pc[v] = "waiting"
           /\ woken # {} => sem_count' = sem_count
           /\ pc' = [v \in Workers |-> IF v = w THEN "put"
                                      ELSE IF v \in woken THEN "enter" ELSE pc[v]]
<1> DEFINE woken == Range(wait_list) \ Range(wait_list')
<1>1. wait_list \in Seq(Workers) /\ mod # "freed"
  BY DEF SemaphoreInv, TypeOK, Up, At
<1>2. woken \in SUBSET Workers
  BY <1>1 DEF Range
<1>3. \A v \in woken : pc[v] = "waiting"
  BY <1>1 DEF Range, SemaphoreInv, Waiters
<1>4. CASE wait_list = <<>>
  <2>1. woken = {}
    BY <1>4 DEF Up, up
  <2> QED BY <1>2, <1>3, <2>1 DEF Up
<1>5. CASE wait_list # <<>>
  <2>1. wait_list' = Tail(wait_list) /\ sem_count' = sem_count
    BY <1>5 DEF Up, up
  <2>2. \A k \in DOMAIN wait_list : k # 1 => wait_list[k] \in Range(Tail(wait_list))
    <3> SUFFICES ASSUME NEW k \in DOMAIN wait_list, k # 1
                 PROVE  wait_list[k] \in Range(Tail(wait_list))
      OBVIOUS
    <3>1. k - 1 \in DOMAIN Tail(wait_list) /\ Tail(wait_list)[k - 1] = wait_list[k]
      BY <1>1, <1>5
    <3> QED BY <3>1 DEF Range
  <2>3. \A v \in woken : v = wait_list[1]
    BY <2>1, <2>2 DEF Range
  <2> QED BY <1>2, <1>3, <2>1, <2>3 DEF Up
<1> QED BY <1>4, <1>5

\* Racers are started in order.
LEMMA StartedStep ==
  ASSUME SemaphoreInv, [Next]_vars
  PROVE  Started'
<1> USE DEF SemaphoreInv, TypeOK, Started
<1>1. CASE Insmod
  BY <1>1 DEF Insmod, ctxVars, Workers, InText
<1>2. CASE StartRacer
  BY <1>2, NumWorkersAssumption DEF StartRacer, ctxVars, Workers, InText
<1>3. CASE StartFails
  BY <1>3 DEF StartFails, ctxVars, Workers, InText
<1>4. CASE InitReturns
  BY <1>4 DEF InitReturns, ctxVars, Workers, InText
<1>5. CASE FreeModule
  BY <1>5 DEF FreeModule, ctxVars, Workers, InText
<1>6. ASSUME NEW w \in Workers, Ready(w) PROVE Started'
  BY <1>6 DEF Ready, At, Goto, ctxVars, Workers, InText
<1>7. ASSUME NEW w \in Workers, StartRacing(w) PROVE Started'
  BY <1>7 DEF StartRacing, At, Goto, ctxVars, Workers, InText
<1>8. ASSUME NEW w \in Workers, SpinEnds(w) PROVE Started'
  BY <1>8 DEF SpinEnds, At, Goto, ctxVars, Workers, InText
<1>9. ASSUME NEW w \in Workers, CheckAction(w) PROVE Started'
  BY <1>9 DEF CheckAction, At, Goto, ctxVars, Workers, InText
<1>10. ASSUME NEW w \in Workers, Down(w) PROVE Started'
  BY <1>10 DEF Down, At, Goto, ctxVars, Workers, InText
<1>11. ASSUME NEW w \in Workers, Enter(w) PROVE Started'
  BY <1>11 DEF Enter, At, Goto, ctxVars, Workers, InText
<1>12. ASSUME NEW w \in Workers, Leave(w) PROVE Started'
  BY <1>12 DEF Leave, At, Goto, ctxVars, Workers, InText
<1>13. ASSUME NEW w \in Workers, Up(w) PROVE Started'
  BY <1>13, UpWakesOne DEF Up, up, At, ctxVars, Workers, InText
<1>14. ASSUME NEW w \in Workers, Put(w) PROVE Started'
  BY <1>14 DEF Put, At, Goto, ctxVars, Workers, InText
<1>15. ASSUME NEW w \in Workers, Return(w) PROVE Started'
  BY <1>15 DEF Return, At, Goto, ctxVars, Workers, InText
<1>16. ASSUME NEW w \in Workers, Oops(w) PROVE Started'
  BY <1>16 DEF Oops, At, Goto, ctxVars, Workers, InText
<1>17. CASE UNCHANGED vars
  BY <1>17 DEF vars, ctxVars, ctxVars, Workers, InText
<1> QED BY <1>1, <1>2, <1>3, <1>4, <1>5, <1>6, <1>7, <1>8, <1>9, <1>10, <1>11, <1>12, <1>13, <1>14, <1>15, <1>16, <1>17 DEF Next, InitThread, Racer

\* The semaphore is free exactly when it has no holder.
LEMMA LockStep ==
  ASSUME SemaphoreInv, [Next]_vars
  PROVE  Lock'
<1> USE DEF SemaphoreInv, TypeOK, Lock, InCriticalSection
<1>1. CASE Insmod
  BY <1>1, NoneBeforeInsmod DEF Insmod, Capacity, ctxVars, InText
<1>2. CASE StartRacer
  BY <1>2 DEF StartRacer, ctxVars, Started, Workers
<1>3. CASE StartFails
  BY <1>3 DEF StartFails, ctxVars, InText
<1>4. CASE InitReturns
  BY <1>4 DEF InitReturns, ctxVars, InText
<1>5. CASE FreeModule
  BY <1>5 DEF FreeModule, ctxVars, InText
<1>6. ASSUME NEW w \in Workers, Ready(w) PROVE Lock'
  BY <1>6 DEF Ready, At, Goto, ctxVars, InText
<1>7. ASSUME NEW w \in Workers, StartRacing(w) PROVE Lock'
  BY <1>7 DEF StartRacing, At, Goto, ctxVars, InText
<1>8. ASSUME NEW w \in Workers, SpinEnds(w) PROVE Lock'
  BY <1>8 DEF SpinEnds, At, Goto, ctxVars, InText
<1>9. ASSUME NEW w \in Workers, CheckAction(w) PROVE Lock'
  BY <1>9 DEF CheckAction, At, Goto, ctxVars, InText
<1>10. ASSUME NEW w \in Workers, Down(w) PROVE Lock'
  BY <1>10 DEF Down, At, Goto, ctxVars, InText
<1>11. ASSUME NEW w \in Workers, Enter(w) PROVE Lock'
  BY <1>11 DEF Enter, At, Goto, ctxVars, InText
<1>12. ASSUME NEW w \in Workers, Leave(w) PROVE Lock'
  BY <1>12 DEF Leave, At, Goto, ctxVars, InText
<1>13. ASSUME NEW w \in Workers, Up(w) PROVE Lock'
  <2>1. pc[w] = "up" /\ mod' = mod /\ mod # "freed" /\ holder_count' = holder_count
    BY <1>13 DEF Up, At, ctxVars
  <2>2. \A v \in Workers \ {w} : pc[v] \notin InCriticalSection
    BY <2>1
  <2>3. sem_count = 0 /\ sem_count' \in {0, 1}
    BY <1>13, <2>1 DEF Up, up
  <2>4. PICK woken \in SUBSET Workers :
           /\ \A u, v \in woken : u = v
           /\ \A v \in woken : pc[v] = "waiting"
           /\ woken # {} => sem_count' = sem_count
           /\ pc' = [v \in Workers |-> IF v = w THEN "put"
                                      ELSE IF v \in woken THEN "enter" ELSE pc[v]]
    BY <1>13, UpWakesOne
  <2>5. \A v \in Workers : pc'[v] \in InCriticalSection => v \in woken
    BY <2>2, <2>4
  <2>6. \A v \in Workers : pc[v] # "sleep" /\ pc'[v] # "sleep"
    BY <2>1, <2>2, <2>4
  <2> QED BY <2>1, <2>3, <2>4, <2>5, <2>6
<1>14. ASSUME NEW w \in Workers, Put(w) PROVE Lock'
  BY <1>14 DEF Put, At, Goto, ctxVars, InText
<1>15. ASSUME NEW w \in Workers, Return(w) PROVE Lock'
  BY <1>15 DEF Return, At, Goto, ctxVars, InText
<1>16. ASSUME NEW w \in Workers, Oops(w) PROVE Lock'
  BY <1>16 DEF Oops, At, Goto, ctxVars, InText
<1>17. CASE UNCHANGED vars
  BY <1>17 DEF vars, ctxVars, ctxVars, InText
<1> QED BY <1>1, <1>2, <1>3, <1>4, <1>5, <1>6, <1>7, <1>8, <1>9, <1>10, <1>11, <1>12, <1>13, <1>14, <1>15, <1>16, <1>17 DEF Next, InitThread, Racer

\* Only an aborted start leads to action = ABORT, and then nobody races.
LEMMA PhaseStep ==
  ASSUME SemaphoreInv, [Next]_vars
  PROVE  Phase'
<1> USE DEF SemaphoreInv, TypeOK, Phase, BeforeRace, Aborted
<1>1. CASE Insmod
  BY <1>1, NoneBeforeInsmod, NumWorkersAssumption DEF Insmod, Started, Workers, ctxVars, InText
<1>2. CASE StartRacer
  BY <1>2 DEF StartRacer, ctxVars, InText
<1>3. CASE StartFails
  BY <1>3 DEF StartFails, ctxVars, InText
<1>4. CASE InitReturns
  BY <1>4 DEF InitReturns, ctxVars, InText
<1>5. CASE FreeModule
  BY <1>5 DEF FreeModule, ctxVars, InText
<1>6. ASSUME NEW w \in Workers, Ready(w) PROVE Phase'
  <2>1. /\ pc' = [pc EXCEPT ![w] = "start"] /\ i = NumWorkers
        \/ pc' = [pc EXCEPT ![w] = "spin"]
    BY <1>6, ReadyJoins DEF Ready, Goto
  <2>2. pc' = [pc EXCEPT ![w] = "start"] => action # "ABORT"
    BY <1>6, <2>1 DEF Ready, At
  <2> QED BY <1>6, <2>1, <2>2 DEF Ready, At
<1>7. ASSUME NEW w \in Workers, StartRacing(w) PROVE Phase'
  BY <1>7 DEF StartRacing, At, Goto, ctxVars, InText
<1>8. ASSUME NEW w \in Workers, SpinEnds(w) PROVE Phase'
  BY <1>8 DEF SpinEnds, At, Goto, ctxVars, InText
<1>9. ASSUME NEW w \in Workers, CheckAction(w) PROVE Phase'
  BY <1>9 DEF CheckAction, At, Goto, ctxVars, InText
<1>10. ASSUME NEW w \in Workers, Down(w) PROVE Phase'
  BY <1>10 DEF Down, At, Goto, ctxVars, InText
<1>11. ASSUME NEW w \in Workers, Enter(w) PROVE Phase'
  <2>1. \A v \in Workers : pc[v] # "sleep"
    BY <1>11 DEF Enter, At, Lock, InCriticalSection
  <2>2. ret' = ret
    BY <1>11, <2>1 DEF Enter, At, Lock
  <2> QED BY <1>11, <2>2 DEF Enter, At, Goto
<1>12. ASSUME NEW w \in Workers, Leave(w) PROVE Phase'
  BY <1>12 DEF Leave, At, Goto, ctxVars, InText
<1>13. ASSUME NEW w \in Workers, Up(w) PROVE Phase'
  BY <1>13, UpWakesOne DEF Up, up, At, ctxVars, InText
<1>14. ASSUME NEW w \in Workers, Put(w) PROVE Phase'
  BY <1>14 DEF Put, At, Goto, ctxVars, InText
<1>15. ASSUME NEW w \in Workers, Return(w) PROVE Phase'
  BY <1>15 DEF Return, At, Goto, ctxVars, InText
<1>16. ASSUME NEW w \in Workers, Oops(w) PROVE Phase'
  BY <1>16 DEF Oops, At, Goto, ctxVars, InText
<1>17. CASE UNCHANGED vars
  BY <1>17 DEF vars, ctxVars, ctxVars, InText
<1> QED BY <1>1, <1>2, <1>3, <1>4, <1>5, <1>6, <1>7, <1>8, <1>9, <1>10, <1>11, <1>12, <1>13, <1>14, <1>15, <1>16, <1>17 DEF Next, InitThread, Racer

\* Whoever is on the wait list keeps waiting until up() takes it off.
LEMMA WaitersStep ==
  ASSUME SemaphoreInv, [Next]_vars
  PROVE  Waiters'
<1> USE DEF SemaphoreInv, TypeOK, Waiters
<1>1. CASE Insmod
  BY <1>1 DEF Insmod, ctxVars
<1>2. CASE StartRacer
  BY <1>2 DEF StartRacer, Started, Workers, ctxVars
<1>3. CASE StartFails
  BY <1>3 DEF StartFails, ctxVars
<1>4. CASE InitReturns
  BY <1>4 DEF InitReturns, ctxVars
<1>5. CASE FreeModule
  BY <1>5 DEF FreeModule, ctxVars
<1>6. ASSUME NEW w \in Workers, Ready(w) PROVE Waiters'
  BY <1>6 DEF Ready, At, Goto, ctxVars
<1>7. ASSUME NEW w \in Workers, StartRacing(w) PROVE Waiters'
  BY <1>7 DEF StartRacing, At, Goto, ctxVars
<1>8. ASSUME NEW w \in Workers, SpinEnds(w) PROVE Waiters'
  BY <1>8 DEF SpinEnds, At, Goto, ctxVars
<1>9. ASSUME NEW w \in Workers, CheckAction(w) PROVE Waiters'
  BY <1>9 DEF CheckAction, At, Goto, ctxVars
<1>10. ASSUME NEW w \in Workers, Down(w) PROVE Waiters'
  <2>1. \A k \in DOMAIN wait_list : pc'[wait_list[k]] = "waiting"
    BY <1>10 DEF Down, At, Goto, ctxVars
  <2>2. w \in Workers /\ (wait_list' # wait_list => wait_list' = Append(wait_list, w) /\ pc'[w] = "waiting")
    BY <1>10 DEF Down, At, Goto
  <2> QED BY <2>1, <2>2
<1>11. ASSUME NEW w \in Workers, Enter(w) PROVE Waiters'
  BY <1>11 DEF Enter, At, Goto, ctxVars
<1>12. ASSUME NEW w \in Workers, Leave(w) PROVE Waiters'
  BY <1>12 DEF Leave, At, Goto, ctxVars
<1>13. ASSUME NEW w \in Workers, Up(w) PROVE Waiters'
  <2>1. mod' = mod /\ mod # "freed" /\ pc[w] = "up" /\ wait_list \in Seq(Workers)
    BY <1>13 DEF Up, At
  <2>2. \A k \in DOMAIN wait_list' : \E m \in DOMAIN wait_list : wait_list'[k] = wait_list[m]
    <3>1. CASE wait_list = <<>>
      BY <1>13, <3>1 DEF Up, up
    <3>2. CASE wait_list # <<>>
      <4>1. wait_list' = Tail(wait_list)
        BY <1>13, <3>2 DEF Up, up
      <4>2. ASSUME NEW k \in DOMAIN Tail(wait_list)
            PROVE  k + 1 \in DOMAIN wait_list /\ Tail(wait_list)[k] = wait_list[k + 1]
        BY <2>1, <3>2
      <4> QED BY <4>1, <4>2
    <3> QED BY <3>1, <3>2
  <2>3. \A k \in DOMAIN wait_list' : wait_list'[k] \in Workers /\ pc[wait_list'[k]] = "waiting"
    BY <2>1, <2>2
  <2>4. \A k \in DOMAIN wait_list' : wait_list'[k] \notin Range(wait_list) \ Range(wait_list')
    BY DEF Range
  <2>5. \A k \in DOMAIN wait_list' : wait_list'[k] # w
    BY <2>1, <2>3
  <2> QED BY <1>13, <2>3, <2>4, <2>5 DEF Up
<1>14. ASSUME NEW w \in Workers, Put(w) PROVE Waiters'
  BY <1>14 DEF Put, At, Goto, ctxVars
<1>15. ASSUME NEW w \in Workers, Return(w) PROVE Waiters'
  BY <1>15 DEF Return, At, Goto, ctxVars
<1>16. ASSUME NEW w \in Workers, Oops(w) PROVE Waiters'
  BY <1>16 DEF Oops, At, Goto, ctxVars
<1>17. CASE UNCHANGED vars
  BY <1>17 DEF vars, ctxVars, ctxVars
<1> QED BY <1>1, <1>2, <1>3, <1>4, <1>5, <1>6, <1>7, <1>8, <1>9, <1>10, <1>11, <1>12, <1>13, <1>14, <1>15, <1>16, <1>17 DEF Next, InitThread, Racer

\* ready_count counts the racers past their atomic increment.
LEMMA ReadyCountedStep ==
  ASSUME SemaphoreInv, [Next]_vars
  PROVE  ReadyCounted'
<1> USE DEF SemaphoreInv, TypeOK, ReadyCounted, Readied
<1>1. CASE Insmod
  <2>1. Readied' = {}
    BY <1>1, NoneBeforeInsmod DEF Insmod
  <2> QED BY <1>1, <2>1, FS_EmptySet DEF Insmod
<1>2. CASE StartRacer
  <2>1. Readied' = Readied
    BY <1>2 DEF StartRacer, Started, Workers
  <2> QED BY <1>2, <2>1 DEF StartRacer, ctxVars
<1>3. CASE StartFails
  BY <1>3 DEF StartFails, ctxVars
<1>4. CASE InitReturns
  BY <1>4 DEF InitReturns, ctxVars
<1>5. CASE FreeModule
  BY <1>5 DEF FreeModule, ctxVars
<1>6. ASSUME NEW w \in Workers, Ready(w) PROVE ReadyCounted'
  BY <1>6, ReadyJoins
<1>7. ASSUME NEW w \in Workers, StartRacing(w) PROVE ReadyCounted'
  BY <1>7 DEF StartRacing, At, Goto, ctxVars
<1>8. ASSUME NEW w \in Workers, SpinEnds(w) PROVE ReadyCounted'
  BY <1>8 DEF SpinEnds, At, Goto, ctxVars
<1>9. ASSUME NEW w \in Workers, CheckAction(w) PROVE ReadyCounted'
  BY <1>9 DEF CheckAction, At, Goto, ctxVars
<1>10. ASSUME NEW w \in Workers, Down(w) PROVE ReadyCounted'
  BY <1>10 DEF Down, At, Goto, ctxVars
<1>11. ASSUME NEW w \in Workers, Enter(w) PROVE ReadyCounted'
  BY <1>11 DEF Enter, At, Goto, ctxVars
<1>12. ASSUME NEW w \in Workers, Leave(w) PROVE ReadyCounted'
  BY <1>12 DEF Leave, At, Goto, ctxVars
<1>13. ASSUME NEW w \in Workers, Up(w) PROVE ReadyCounted'
  <2>1. Readied' = Readied
    BY <1>13, UpWakesOne DEF Up, At
  <2> QED BY <1>13, <2>1 DEF Up, At, ctxVars
<1>14. ASSUME NEW w \in Workers, Put(w) PROVE ReadyCounted'
  BY <1>14 DEF Put, At, Goto, ctxVars
<1>15. ASSUME NEW w \in Workers, Return(w) PROVE ReadyCounted'
  BY <1>15 DEF Return, At, Goto, ctxVars
<1>16. ASSUME NEW w \in Workers, Oops(w) PROVE ReadyCounted'
  BY <1>16 DEF Oops, At, Goto, ctxVars
<1>17. CASE UNCHANGED vars
  BY <1>17 DEF vars, ctxVars, ctxVars
<1> QED BY <1>1, <1>2, <1>3, <1>4, <1>5, <1>6, <1>7, <1>8, <1>9, <1>10, <1>11, <1>12, <1>13, <1>14, <1>15, <1>16, <1>17 DEF Next, InitThread, Racer

\* The reference count counts the racers that have not put theirs.
LEMMA RefsCountedStep ==
  ASSUME SemaphoreInv, [Next]_vars
  PROVE  RefsCounted'
<1>0. Holding \in SUBSET Workers
  BY DEF Holding
<1> USE DEF SemaphoreInv, TypeOK, RefsCounted, Holding, InText
<1>1. CASE Insmod
  <2>1. Holding' = {}
    BY <1>1, NoneBeforeInsmod DEF Insmod
  <2>2. Cardinality(Holding') = 0
    BY <2>1, FS_EmptySet
  <2> QED BY <1>1, <2>2 DEF Insmod
<1>2. CASE StartRacer
  <2>1. i \in Workers /\ i \notin Holding /\ Holding' = Holding \cup {i}
    <3>1. i \in Workers
      BY <1>2, NumWorkersAssumption DEF StartRacer, Workers
    <3>2. pc[i] = "none"
      BY <3>1 DEF Started, Workers
    <3> QED BY <1>2, <3>1, <3>2 DEF StartRacer
  <2>2. Cardinality(Holding') = Cardinality(Holding) + 1
    BY <1>0, <2>1, RacerJoins
  <2>3. Cardinality(Holding) \in Nat
    BY <1>0, RacersFinite
  <2> QED BY <1>2, <2>2, <2>3 DEF StartRacer, ModuleGets, ctxVars
<1>3. CASE StartFails
  BY <1>3 DEF StartFails, ctxVars
<1>4. CASE InitReturns
  <2>1. Cardinality(Holding) \in Nat
    BY <1>0, RacersFinite
  <2>2. Holding' = Holding
    BY <1>4 DEF InitReturns
  <2> QED BY <1>4, <2>1, <2>2 DEF InitReturns
<1>5. CASE FreeModule
  <2>1. CASE mod = "failed"
    BY <1>5, <2>1 DEF FreeModule, Phase, ctxVars
  <2>2. CASE mod = "live" /\ modref = 0
    <3>0. Cardinality(Holding) = 0 /\ IsFiniteSet(Holding)
      BY <1>0, <2>2, RacersFinite
    <3> HIDE DEF Holding
    <3>1. Holding = {}
      BY <3>0, FS_EmptySet
    <3> USE DEF Holding
    <3>2. \A w \in Workers : pc[w] # "none"
      BY <2>2, NumWorkersAssumption DEF Phase, Started, Workers
    <3>3. \A w \in Workers : pc[w] \in {"return", "done", "oops"}
      BY <3>1, <3>2
    <3> QED BY <1>5, <3>3 DEF FreeModule
  <2> QED BY <1>5, <2>1, <2>2 DEF FreeModule
<1>6. ASSUME NEW w \in Workers, Ready(w) PROVE RefsCounted'
  BY <1>6 DEF Ready, At, Goto, ctxVars
<1>7. ASSUME NEW w \in Workers, StartRacing(w) PROVE RefsCounted'
  BY <1>7 DEF StartRacing, At, Goto, ctxVars
<1>8. ASSUME NEW w \in Workers, SpinEnds(w) PROVE RefsCounted'
  BY <1>8 DEF SpinEnds, At, Goto, ctxVars
<1>9. ASSUME NEW w \in Workers, CheckAction(w) PROVE RefsCounted'
  BY <1>9 DEF CheckAction, At, Goto, ctxVars
<1>10. ASSUME NEW w \in Workers, Down(w) PROVE RefsCounted'
  BY <1>10 DEF Down, At, Goto, ctxVars
<1>11. ASSUME NEW w \in Workers, Enter(w) PROVE RefsCounted'
  BY <1>11 DEF Enter, At, Goto, ctxVars
<1>12. ASSUME NEW w \in Workers, Leave(w) PROVE RefsCounted'
  BY <1>12 DEF Leave, At, Goto, ctxVars
<1>13. ASSUME NEW w \in Workers, Up(w) PROVE RefsCounted'
  <2>1. Holding' = Holding
    BY <1>13, UpWakesOne DEF Up, At
  <2>2. mod' = mod /\ mod # "freed" /\ modref' = modref
    BY <1>13 DEF Up, At
  <2> QED BY <2>1, <2>2
<1>14. ASSUME NEW w \in Workers, Put(w) PROVE RefsCounted'
  <2>1. w \in Holding /\ Holding' = Holding \ {w}
    BY <1>14 DEF Put, At, Goto
  <2>2. Cardinality(Holding') = Cardinality(Holding) - 1
    BY <1>0, <2>1, RacerLeaves
  <2>3. Cardinality(Holding) \in Nat
    BY <1>0, RacersFinite
  <2> QED BY <1>14, <2>2, <2>3 DEF Put, At
<1>15. ASSUME NEW w \in Workers, Return(w) PROVE RefsCounted'
  BY <1>15 DEF Return, At, Goto, ctxVars
<1>16. ASSUME NEW w \in Workers, Oops(w) PROVE RefsCounted'
  BY <1>16 DEF Oops, At, Goto, ctxVars
<1>17. CASE UNCHANGED vars
  BY <1>17 DEF vars, ctxVars, ctxVars
<1> QED BY <1>1, <1>2, <1>3, <1>4, <1>5, <1>6, <1>7, <1>8, <1>9, <1>10, <1>11, <1>12, <1>13, <1>14, <1>15, <1>16, <1>17 DEF Next, InitThread, Racer

\* Types: the counters stay in range because of what they count.
LEMMA TypeStep ==
  ASSUME SemaphoreInv, [Next]_vars
  PROVE  TypeOK'
<1> USE DEF SemaphoreInv, TypeOK, InText
<1>1. CASE Insmod
  BY <1>1, NumWorkersAssumption DEF Insmod, Capacity
<1>2. CASE StartRacer
  <2>1. i' \in 0 .. NumWorkers /\ modref' \in Nat
    BY <1>2, NumWorkersAssumption DEF StartRacer, ModuleGets
  <2>2. pc' \in [Workers -> InText \cup {"none", "done", "oops"}]
    BY <1>2 DEF StartRacer
  <2> QED BY <1>2, <2>1, <2>2 DEF StartRacer, ctxVars
<1>3. CASE StartFails
  BY <1>3 DEF StartFails, ctxVars
<1>4. CASE InitReturns
  <2>1. modref' \in Nat
    <3>1. Holding \in SUBSET Workers
      BY DEF Holding
    <3>2. Cardinality(Holding) \in Nat
      BY <3>1, RacersFinite
    <3> QED BY <1>4, <3>2 DEF InitReturns, RefsCounted
  <2> QED BY <1>4, <2>1 DEF InitReturns
<1>5. CASE FreeModule
  BY <1>5 DEF FreeModule, ctxVars
<1>6. ASSUME NEW w \in Workers, Ready(w) PROVE TypeOK'
  BY <1>6, ReadyJoins DEF Ready, At, Goto
<1>7. ASSUME NEW w \in Workers, StartRacing(w) PROVE TypeOK'
  BY <1>7 DEF StartRacing, At, Goto, ctxVars
<1>8. ASSUME NEW w \in Workers, SpinEnds(w) PROVE TypeOK'
  BY <1>8 DEF SpinEnds, At, Goto, ctxVars
<1>9. ASSUME NEW w \in Workers, CheckAction(w) PROVE TypeOK'
  BY <1>9 DEF CheckAction, At, Goto, ctxVars
<1>10. ASSUME NEW w \in Workers, Down(w) PROVE TypeOK'
  <2>1. wait_list' \in Seq(Workers)
    BY <1>10 DEF Down
  <2>2. sem_count' \in Nat
    BY <1>10 DEF Down
  <2>3. pc' \in [Workers -> InText \cup {"none", "done", "oops"}]
    BY <1>10 DEF Down, Goto
  <2> QED BY <1>10, <2>1, <2>2, <2>3 DEF Down, At, ctxVars
<1>11. ASSUME NEW w \in Workers, Enter(w) PROVE TypeOK'
  BY <1>11 DEF Enter, At, Goto, ctxVars
<1>12. ASSUME NEW w \in Workers, Leave(w) PROVE TypeOK'
  <2>1. holder_count' \in Nat
    BY <1>12 DEF Leave, At, Lock
  <2> QED BY <1>12, <2>1 DEF Leave, At, Goto
<1>13. ASSUME NEW w \in Workers, Up(w) PROVE TypeOK'
  <2>1. wait_list' \in Seq(Workers) /\ sem_count' \in Nat
    BY <1>13 DEF Up, up
  <2>2. pc' \in [Workers -> InText \cup {"none", "done", "oops"}]
    BY <1>13, UpWakesOne
  <2> QED BY <1>13, <2>1, <2>2 DEF Up, At, ctxVars
<1>14. ASSUME NEW w \in Workers, Put(w) PROVE TypeOK'
  <2>1. Holding \in SUBSET Workers /\ w \in Holding
    BY <1>14 DEF Holding, Put, At
  <2>2. Cardinality(Holding) \in Nat /\ Cardinality(Holding) >= 1
    BY <2>1, RacersFinite, RacerLeaves
  <2>3. mod \in {"init", "failed", "live", "unloaded"}
    BY <1>14 DEF Put, At
  <2>4. modref >= 1
    BY <2>2, <2>3 DEF RefsCounted
  <2> QED BY <1>14, <2>4 DEF Put, At, Goto, ctxVars
<1>15. ASSUME NEW w \in Workers, Return(w) PROVE TypeOK'
  BY <1>15 DEF Return, At, Goto, ctxVars
<1>16. ASSUME NEW w \in Workers, Oops(w) PROVE TypeOK'
  BY <1>16 DEF Oops, At, Goto, ctxVars
<1>17. CASE UNCHANGED vars
  BY <1>17 DEF vars, ctxVars, ctxVars
<1> QED BY <1>1, <1>2, <1>3, <1>4, <1>5, <1>6, <1>7, <1>8, <1>9, <1>10, <1>11, <1>12, <1>13, <1>14, <1>15, <1>16, <1>17 DEF Next, InitThread, Racer

-------------------------------------------------------------------------------
(* The theorems.                                                           *)

\* SemaphoreInv holds in every reachable state.
THEOREM SemaphoreInvariant == Spec => []SemaphoreInv
<1>1. SemaphoreInv /\ [Next]_vars => SemaphoreInv'
  BY TypeStep, StartedStep, LockStep, WaitersStep, PhaseStep, ReadyCountedStep,
     RefsCountedStep DEF SemaphoreInv
<1> QED BY <1>1, SemaphoreInitInv, PTL DEF Spec

\* Every variable keeps its type, for any number of racers; no counter goes below zero.
THEOREM SemaphoreTypeOK == Spec => []TypeOK
<1>1. SemaphoreInv => TypeOK
  BY DEF SemaphoreInv
<1> QED BY <1>1, SemaphoreInvariant, PTL

\* The demo's check "Concurrency invariant violated" never fires.
THEOREM SemaphoreMutualExclusion == Spec => []MutualExclusion
<1>1. SemaphoreInv => MutualExclusion
  BY DEF SemaphoreInv, Lock, Phase, MutualExclusion
<1> QED BY <1>1, SemaphoreInvariant, PTL

\* After a failed start nobody races.
THEOREM SemaphoreAbortedNeverRace == Spec => []AbortedNeverRace
<1>1. SemaphoreInv => AbortedNeverRace
  BY DEF SemaphoreInv, Phase, Aborted, InCriticalSection, AbortedNeverRace
<1> QED BY <1>1, SemaphoreInvariant, PTL

\* The module is not freed under a racer that holds a reference, unless init failed.
THEOREM SemaphoreTextOutlivesReferences == Spec => []TextOutlivesReferences
<1>1. SemaphoreInv => TextOutlivesReferences
  BY DEF SemaphoreInv, RefsCounted, TextOutlivesReferences
<1> QED BY <1>1, SemaphoreInvariant, PTL

-------------------------------------------------------------------------------
(***************************************************************************)
(* The work queue demo: the module reference that travels with a work item *)
(* keeps the text, in every interleaving of init, the workers and rmmod,   *)
(* over any number of loads.                                               *)
(*                                                                         *)
(* The argument is one of counting: the reference count is one for each    *)
(* item that has a reference along, one for insmod while it runs init (or  *)
(* has died in it), and one between try_module_get and schedule_work       *)
(* (References).  Rmmod needs the count to be zero.                        *)
(***************************************************************************)

WorkStages == {"idle", "pending", "run", "put", "return", "oops"}
InitStages == {"static_get", "static_schedule", "kmalloc", "dynamic_get", "dynamic_schedule",
               "return"}

\* The reference that item w has along, and those that insmod holds.
Along(w) == IF work[w] \in {"pending", "run", "put"} THEN 1 ELSE 0
Insmods == (IF wmod \in InitStages \cup {"faulted"} THEN 1 ELSE 0)
           + (IF wmod \in {"static_schedule", "dynamic_schedule"} THEN 1 ELSE 0)

References == wref = Insmods + Along("static") + Along("dynamic")

\* Items are queued once per load, and after the reference of the load before was dropped.
Queued ==
  /\ wmod \in InitStages \cup {"unloaded", "live", "faulted"}
  /\ wmod \in {"static_get", "static_schedule"} => work["static"] = "idle"
  /\ wmod \in InitStages \ {"return"} => work["dynamic"] = "idle"
  /\ wmod = "unloaded" => Covered = {}

WorkInv == wref \in Int /\ work \in [Items -> WorkStages] /\ References /\ Queued

-------------------------------------------------------------------------------
\* No item is queued in the initial state.
LEMMA WorkInitInv == WorkInit => WorkInv
  BY DEF WorkInit, WorkInv, References, Queued, Along, Insmods, Covered, Items, WorkStages,
         InitStages

\* A step of insmod or rmmod keeps the invariant: each reference taken goes along with an
\* item.
LEMMA WorkLoaderStep ==
  ASSUME WorkInv, WorkInsmod \/ WorkRmmod \/ InitTask
  PROVE  WorkInv'
<1> USE DEF WorkInv, References, Queued, Along, Insmods, Covered, Items, WorkStages, InitStages
<1>1. CASE WorkInsmod
  BY <1>1 DEF WorkInsmod
<1>2. CASE WorkRmmod
  BY <1>2 DEF WorkRmmod
<1>3. CASE StaticGet
  BY <1>3 DEF StaticGet, TryModuleGet
<1>4. CASE StaticSchedule
  BY <1>4 DEF StaticSchedule, schedule_work
<1>5. CASE DynamicAlloc
  BY <1>5 DEF DynamicAlloc
<1>6. CASE DynamicAllocFails
  BY <1>6 DEF DynamicAllocFails
<1>7. CASE DynamicGet
  BY <1>7 DEF DynamicGet, TryModuleGet
<1>8. CASE DynamicSchedule
  BY <1>8 DEF DynamicSchedule, schedule_work
<1>9. CASE WorkInitReturns
  BY <1>9 DEF WorkInitReturns
<1> QED BY <1>1, <1>2, <1>3, <1>4, <1>5, <1>6, <1>7, <1>8, <1>9 DEF InitTask

\* A step of a worker keeps it: the reference is dropped by module_put alone.
LEMMA WorkerStep ==
  ASSUME WorkInv, NEW w \in Items, Worker(w)
  PROVE  WorkInv'
<1> USE DEF WorkInv, References, Queued, Along, Insmods, Covered, Items, WorkStages, InitStages,
            WorkAt, WorkGoto
<1>1. CASE RunWork(w)
  BY <1>1 DEF RunWork
<1>2. CASE WorkFunc(w)
  BY <1>2 DEF WorkFunc
<1>3. CASE WorkPut(w)
  BY <1>3 DEF WorkPut, ModulePut
<1>4. CASE WorkReturn(w)
  BY <1>4 DEF WorkReturn
<1>5. CASE WorkOops(w)
  BY <1>5 DEF WorkOops
<1> QED BY <1>1, <1>2, <1>3, <1>4, <1>5 DEF Worker

\* The inductive invariant: the reference count accounts for every item.
THEOREM WorkInvariant == WorkSpec => []WorkInv
<1>1. WorkInv /\ [WorkNext]_workVars => WorkInv'
  <2> SUFFICES ASSUME WorkInv, [WorkNext]_workVars PROVE WorkInv'
    OBVIOUS
  <2>1. CASE UNCHANGED workVars
    BY <2>1 DEF workVars, WorkInv, References, Queued, Along, Insmods, Covered
  <2>2. CASE WorkNext
    BY <2>2, WorkLoaderStep, WorkerStep DEF WorkNext
  <2> QED BY <2>1, <2>2
<1> QED BY <1>1, WorkInitInv, PTL DEF WorkSpec
\* The memory of the dynamic item keeps its type.
LEMMA MemoryType == WorkSpec => [](memory \in {"none", "allocated", "freed"})
<1> DEFINE MemoryOK == memory \in {"none", "allocated", "freed"}
<1>1. MemoryOK /\ [WorkNext]_workVars => MemoryOK'
  BY DEF WorkNext, workVars, WorkInsmod, WorkRmmod, InitTask, StaticGet, StaticSchedule,
         DynamicAlloc, DynamicAllocFails, DynamicGet, DynamicSchedule, WorkInitReturns,
         Worker, RunWork, WorkFunc, WorkPut, WorkReturn, WorkOops
<1>2. WorkInit => MemoryOK
  BY DEF WorkInit
<1> QED BY <1>1, <1>2, PTL DEF WorkSpec

\* Every variable of the work queue demo keeps its type: with two items, and two
\* references that insmod may hold, the count never exceeds three.
THEOREM WorkDemoTypeOK == WorkSpec => []WorkTypeOK
<1>1. WorkInv /\ memory \in {"none", "allocated", "freed"} => WorkTypeOK
  <2> SUFFICES ASSUME WorkInv PROVE /\ wref \in 0 .. 3
                                    /\ wmod \in InitStages \cup {"unloaded", "live", "faulted"}
                                    /\ work \in [Items -> WorkStages]
    BY DEF WorkTypeOK, InitStages, WorkStages
  <2>1. CASE wmod \in {"static_schedule", "dynamic_schedule"}
    BY <2>1 DEF WorkInv, References, Queued, Insmods, Along, InitStages
  <2>2. CASE wmod \notin {"static_schedule", "dynamic_schedule"}
    BY <2>2 DEF WorkInv, References, Queued, Insmods, Along
  <2> QED BY <2>1, <2>2 DEF WorkInv, Queued
<1> QED BY <1>1, WorkInvariant, MemoryType, PTL

-------------------------------------------------------------------------------
\* One item joins or leaves those that have a reference along, in a loaded module.
LEMMA OneItemStep ==
  ASSUME NEW w \in Items, wmod # "unloaded", wmod' # "unloaded",
         \A v \in Items \ {w} : work'[v] = work[v]
  PROVE  [WorkText!Next]_WorkText!vars
<1>1. Covered' \ {w} = Covered \ {w}
  BY DEF Covered
<1>2. CASE w \in Covered /\ w \notin Covered'
  <2>1. WorkText!Leave(w)
    BY <1>1, <1>2 DEF WorkText!Leave
  <2> QED BY <2>1 DEF WorkText!Next
<1>3. CASE w \notin Covered /\ w \in Covered'
  <2>1. WorkText!Enter(w)
    BY <1>1, <1>3 DEF WorkText!Enter
  <2> QED BY <2>1 DEF WorkText!Next
<1>4. CASE w \in Covered <=> w \in Covered'
  BY <1>1, <1>4 DEF WorkText!vars
<1> QED BY <1>2, <1>3, <1>4

\* The work queue demo implements ModuleText: the module is never unloaded under an item
\* that is queued or runs up to its module_put, although exit waits for nobody.
THEOREM WorkTextOutlivesWork == WorkSpec => TextOutlivesWork
<1>1. WorkInit => WorkText!Init
  BY DEF WorkInit, WorkText!Init, Covered
<1>2. WorkInv /\ [WorkNext]_workVars => [WorkText!Next]_WorkText!vars
  <2> SUFFICES ASSUME WorkInv, [WorkNext]_workVars PROVE [WorkText!Next]_WorkText!vars
    OBVIOUS
  <2>1. CASE WorkInsmod
    <3>1. WorkText!Load
      BY <2>1 DEF WorkInsmod, WorkText!Load, Covered
    <3> QED BY <3>1 DEF WorkText!Next
  <2>2. CASE WorkRmmod
    <3>1. Along("static") + Along("dynamic") = 0
      BY <2>2 DEF WorkRmmod, WorkInv, References, Insmods, Along, InitStages
    <3>2. Covered = {} /\ Covered' = {}
      BY <3>1, <2>2 DEF Along, Covered, Items, WorkRmmod
    <3>3. WorkText!Unload
      BY <3>2, <2>2 DEF WorkText!Unload, WorkRmmod
    <3> QED BY <3>3 DEF WorkText!Next
  <2>3. CASE InitTask
    <3>1. /\ wmod # "unloaded" /\ wmod' # "unloaded"
          /\ work' = work \/ schedule_work("static") \/ schedule_work("dynamic")
      BY <2>3 DEF InitTask, StaticGet, StaticSchedule, DynamicAlloc, DynamicAllocFails,
                  DynamicGet, DynamicSchedule, WorkInitReturns
    <3>2. CASE work' = work
      BY <3>1, <3>2 DEF Covered, WorkText!vars
    <3>3. ASSUME NEW w \in Items, schedule_work(w) PROVE [WorkText!Next]_WorkText!vars
      <4>1. \A v \in Items \ {w} : work'[v] = work[v]
        BY <3>3 DEF schedule_work, WorkInv
      <4> QED BY <4>1, <3>1, OneItemStep
    <3> QED BY <3>1, <3>2, <3>3 DEF Items
  <2>4. ASSUME NEW w \in Items, Worker(w) PROVE [WorkText!Next]_WorkText!vars
    <3>1. CASE WorkOops(w)
      <4>1. Covered = {} /\ wmod = "unloaded" /\ wmod' = wmod
        BY <3>1 DEF WorkOops, WorkInv, Queued
      <4>2. Covered' = {}
        BY <4>1, <3>1 DEF WorkOops, WorkGoto, Covered, WorkInv
      <4> QED BY <4>1, <4>2 DEF WorkText!vars
    <3>2. CASE ~WorkOops(w)
      <4>1. /\ wmod # "unloaded" /\ wmod' = wmod
            /\ \A v \in Items \ {w} : work'[v] = work[v]
        BY <2>4, <3>2 DEF Worker, RunWork, WorkFunc, WorkPut, WorkReturn, WorkAt, WorkGoto, WorkInv
      <4> QED BY <4>1, OneItemStep
    <3> QED BY <3>1, <3>2
  <2>5. CASE UNCHANGED workVars
    BY <2>5 DEF workVars, WorkText!vars, Covered
  <2> QED BY <2>1, <2>2, <2>3, <2>4, <2>5 DEF WorkNext
<1> QED BY <1>1, <1>2, WorkInvariant, PTL DEF WorkSpec, TextOutlivesWork, WorkText!Spec

-------------------------------------------------------------------------------
(***************************************************************************)
(* The sysfs demo, for any set of readers.                                 *)
(*                                                                         *)
(* The argument: files are visible, and shows run, only between device_add *)
(* and the end of device_del, and all that time the entity is filled and   *)
(* bin_attr_data points to it.  The end is where it matters: put_device    *)
(* and the kfree of the error path come when no file is visible any more   *)
(* and the shows have been waited for; a reader that still has a file open *)
(* holds a stale one by then (LiveNodes), which leads into no show.        *)
(***************************************************************************)

\* Where files may be visible, and where the entity is filled.
Online == {"device_add", "live", "undo", "device_del"}
Filled == Online \cup {"dev_set_name"}

ReaderTypes ==
  /\ rpc \in [Readers -> {"idle", "open", "read", "show"} \cup Verdicts]
  /\ rfile \in [Readers -> Nat]
  /\ rnode \in [Readers -> {"none", "live", "stale"}]

EntityFilled == dmod \in Filled => entity = "filled" /\ private = TRUE

FilesOnline ==
  /\ visible # {} => dmod \in Online
  /\ \A r \in Readers : rpc[r] = "show" => dmod \in Online

LiveNodes ==
  \A r \in Readers : /\ rnode[r] = "live" => rfile[r] \in visible
                     /\ rnode[r] # "none" => rpc[r] \in {"read", "show"}

DeviceInv == ReaderTypes /\ EntityFilled /\ FilesOnline /\ LiveNodes

-------------------------------------------------------------------------------
\* The inductive invariant holds in the initial state.
LEMMA DeviceInitInv == DeviceInit => DeviceInv
  BY DEF DeviceInit, DeviceInv, ReaderTypes, EntityFilled, FilesOnline, LiveNodes, Online, Filled

\* A step of insmod or rmmod keeps it: the readers stay where they are.
LEMMA DeviceLoaderStep ==
  ASSUME DeviceInv, LoaderTask \/ DeviceInsmod \/ DeviceRmmod
  PROVE  DeviceInv'
<1> USE DEF Online, Filled
<1> SUFFICES ASSUME ~RemoveFile PROVE DeviceInv'
  <2>1. CASE RemoveFile
    <3>1. ReaderTypes'
      BY <2>1 DEF RemoveFile, DeviceInv, ReaderTypes, readerVars
    <3>2. EntityFilled' /\ FilesOnline'
      BY <2>1 DEF RemoveFile, DeviceInv, EntityFilled, FilesOnline
    <3>3. ASSUME NEW r \in Readers
          PROVE  /\ rnode'[r] = "live" => rfile[r] \in visible'
                 /\ rnode'[r] # "none" => rpc[r] \in {"read", "show"}
      <4>1. rnode'[r] = IF rnode[r] = "live" /\ rfile[r] = Min(visible)
                        THEN "stale" ELSE rnode[r]
        BY <2>1 DEF RemoveFile
      <4>2. visible' = visible \ {Min(visible)}
        BY <2>1 DEF RemoveFile
      <4>3. /\ rnode[r] = "live" => rfile[r] \in visible
            /\ rnode[r] # "none" => rpc[r] \in {"read", "show"}
        BY DEF DeviceInv, LiveNodes
      <4> QED BY <4>1, <4>2, <4>3
    <3>4. LiveNodes'
      BY <3>3, <2>1 DEF LiveNodes, RemoveFile
    <3> QED BY <3>1, <3>2, <3>4 DEF DeviceInv
  <2> QED BY <2>1
<1>1. UNCHANGED readerVars
  BY DEF LoaderTask, DeviceInsmod, DeviceRmmod, RootRegister, EntityAlloc, EntityFill, SetName,
         AddFile, AddReturns, AddFails, AddFailedFree, InitUndo, PutDevice, RootUnregister
<1>2. ReaderTypes'
  BY <1>1 DEF DeviceInv, ReaderTypes, readerVars
<1>3. EntityFilled'
  BY DEF DeviceInv, EntityFilled, deviceVars, init_bin_attr_data,
         LoaderTask, DeviceInsmod, DeviceRmmod, RootRegister, EntityAlloc, EntityFill, SetName,
         AddFile, AddReturns, AddFails, AddFailedFree, InitUndo, PutDevice, RootUnregister
<1>4. FilesOnline'
  <2>1. CASE AddFailedFree \/ PutDevice
    BY <2>1, <1>1 DEF AddFailedFree, PutDevice, Drained, DeviceInv, FilesOnline, readerVars
  <2>2. CASE ~(AddFailedFree \/ PutDevice)
    BY <2>2, <1>1 DEF DeviceInv, FilesOnline, deviceVars, readerVars,
         LoaderTask, DeviceInsmod, DeviceRmmod, RootRegister, EntityAlloc, EntityFill, SetName,
         AddFile, AddReturns, AddFails, InitUndo, RootUnregister
  <2> QED BY <2>1, <2>2
<1>5. visible \subseteq visible'
  BY DEF deviceVars,
         LoaderTask, DeviceInsmod, DeviceRmmod, RootRegister, EntityAlloc, EntityFill, SetName,
         AddFile, AddReturns, AddFails, AddFailedFree, InitUndo, PutDevice, RootUnregister
<1>6. LiveNodes'
  BY <1>1, <1>5 DEF DeviceInv, LiveNodes, readerVars
<1> QED BY <1>2, <1>3, <1>4, <1>6 DEF DeviceInv

\* A step of a reader keeps it: the module stays where it is, and a show starts only from
\* a live file, which is visible.
LEMMA DeviceReaderStep ==
  ASSUME DeviceInv, NEW r \in Readers, ReaderStart(r) \/ Reader(r)
  PROVE  DeviceInv'
<1> USE DEF Online, Filled
<1>1. UNCHANGED <<dmod, deviceVars>>
  BY DEF ReaderStart, Reader, ReaderOpen, ReaderRead, ReaderShown
<1>2. EntityFilled'
  BY <1>1 DEF DeviceInv, EntityFilled, deviceVars
<1>3. CASE ReaderStart(r)
  BY <1>1, <1>2, <1>3 DEF ReaderStart, ReaderGoto, DeviceInv, ReaderTypes, FilesOnline, LiveNodes,
                          deviceVars, Verdicts
<1>4. CASE ReaderOpen(r)
  BY <1>1, <1>2, <1>4 DEF ReaderOpen, ReadFailed, ReaderGoto, DeviceInv, ReaderTypes, FilesOnline,
                          LiveNodes, deviceVars, Verdicts
<1>5. CASE ReaderRead(r)
  BY <1>1, <1>2, <1>5 DEF ReaderRead, ReadFailed, ReaderGoto, DeviceInv, ReaderTypes, FilesOnline,
                          LiveNodes, deviceVars, Verdicts
<1>6. CASE ReaderShown(r)
  BY <1>1, <1>2, <1>6 DEF ReaderShown, ReaderGoto, DeviceInv, ReaderTypes, FilesOnline, LiveNodes,
                          deviceVars, Verdicts
<1> QED BY <1>3, <1>4, <1>5, <1>6 DEF Reader

\* The inductive invariant of the sysfs demo: what insmod, rmmod and the readers keep.
THEOREM DeviceInvariant == DeviceSpec => []DeviceInv
<1>1. DeviceInv /\ [DeviceNext]_sysfsVars => DeviceInv'
  <2> SUFFICES ASSUME DeviceInv, [DeviceNext]_sysfsVars PROVE DeviceInv'
    OBVIOUS
  <2>1. CASE UNCHANGED sysfsVars
    BY <2>1 DEF sysfsVars, deviceVars, readerVars, DeviceInv, ReaderTypes, EntityFilled,
                FilesOnline, LiveNodes
  <2>2. CASE DeviceNext
    BY <2>2, DeviceLoaderStep, DeviceReaderStep DEF DeviceNext
  <2> QED BY <2>1, <2>2
<1> QED BY <1>1, DeviceInitInv, PTL DEF DeviceSpec

\* A show of one of the files finds a filled entity, and the data pointer set, whatever
\* insmod or rmmod is doing and however many readers there are.
THEOREM DeviceShowSeesEntity == DeviceSpec => []ShowSeesEntity
<1>1. DeviceInv => ShowSeesEntity
  BY DEF DeviceInv, FilesOnline, EntityFilled, ShowSeesEntity, Online, Filled
<1> QED BY <1>1, DeviceInvariant, PTL

\* The smallest of some files of the device is one of them.
LEMMA MinFile ==
  ASSUME NEW S \in SUBSET DeviceFiles, S # {}
  PROVE  Min(S) \in S
<1>1. \E x \in S : \A y \in S : x <= y
  <2>1. CASE 1 \in S
    BY <2>1 DEF DeviceFiles
  <2>2. CASE 1 \notin S /\ 2 \in S
    BY <2>2 DEF DeviceFiles
  <2>3. CASE 1 \notin S /\ 2 \notin S
    <3>1. \A x \in S : x = 3
      BY <2>3 DEF DeviceFiles
    <3>2. PICK x \in S : x = 3
      BY <3>1
    <3> QED BY <3>1, <3>2
  <2> QED BY <2>1, <2>2, <2>3
<1> QED BY <1>1 DEF Min

\* Every variable of the sysfs demo keeps its type: a reader never goes beyond the last
\* file, and no file appears that the group does not have.
THEOREM DeviceDemoTypeOK == DeviceSpec => []DeviceTypeOK
<1>1. DeviceInit => DeviceTypeOK
  <2> SUFFICES ASSUME DeviceInit PROVE DeviceTypeOK
    OBVIOUS
  <2>1. rfile \in [Readers -> DeviceFiles] /\ rnode \in [Readers -> {"none", "live", "stale"}]
    BY DEF DeviceInit, DeviceFiles
  <2>2. rpc \in [Readers -> {"idle", "open", "read", "show"} \cup Verdicts]
    BY DEF DeviceInit
  <2>3. root_dev \in BOOLEAN /\ private \in BOOLEAN
    BY DEF DeviceInit
  <2> QED BY <2>1, <2>2, <2>3 DEF DeviceInit, DeviceTypeOK
<1>2. DeviceTypeOK /\ [DeviceNext]_sysfsVars => DeviceTypeOK'
  <2> SUFFICES ASSUME DeviceTypeOK, [DeviceNext]_sysfsVars PROVE DeviceTypeOK'
    OBVIOUS
  <2> USE DEF DeviceTypeOK, deviceVars, readerVars
  <2>1. CASE AddFile
    <3>1. Min(DeviceFiles \ visible) \in DeviceFiles
      BY <2>1, MinFile DEF AddFile
    <3> QED BY <2>1, <3>1 DEF AddFile
  <2>2. CASE RemoveFile
    BY <2>2 DEF RemoveFile
  <2>3. CASE DeviceInsmod \/ DeviceRmmod \/ (LoaderTask /\ ~AddFile /\ ~RemoveFile)
    BY <2>3 DEF LoaderTask, DeviceInsmod, DeviceRmmod, RootRegister, EntityAlloc, EntityFill,
         init_bin_attr_data, SetName, AddReturns, AddFails, AddFailedFree, InitUndo, PutDevice,
         RootUnregister
  <2>4. ASSUME NEW r \in Readers, ReaderStart(r) \/ Reader(r) PROVE DeviceTypeOK'
    <3>1. CASE ReaderStart(r)
      BY <3>1 DEF ReaderStart, ReaderGoto, Verdicts, DeviceFiles
    <3>2. CASE ReaderOpen(r)
      BY <3>2 DEF ReaderOpen, ReadFailed, ReaderGoto, Verdicts
    <3>3. CASE ReaderRead(r)
      BY <3>3 DEF ReaderRead, ReadFailed, ReaderGoto, Verdicts
    <3>4. CASE ReaderShown(r)
      BY <3>4 DEF ReaderShown, ReaderGoto, Verdicts, DeviceFiles, DataFile
    <3> QED BY <2>4, <3>1, <3>2, <3>3, <3>4 DEF Reader
  <2>5. CASE UNCHANGED sysfsVars
    BY <2>5 DEF sysfsVars
  <2> QED BY <2>1, <2>2, <2>3, <2>4, <2>5 DEF DeviceNext
<1> QED BY <1>1, <1>2, PTL DEF DeviceSpec

-------------------------------------------------------------------------------
(* The three demos together.                                               *)

\* Looking at one demo at a time leaves each a behaviour of its own specification: what
\* was proved of each holds of the specification that the run checks.
THEOREM KernelDemosImplementEach == DemoSpec => Spec /\ WorkSpec /\ DeviceSpec
<1>1. DemoInit => Init /\ WorkInit /\ DeviceInit
  BY DEF DemoInit
<1>2. [DemoNext]_demoVars => [Next]_vars /\ [WorkNext]_workVars /\ [DeviceNext]_sysfsVars
  BY DEF DemoNext, demoVars
<1> QED BY <1>1, <1>2, PTL DEF DemoSpec, Spec, WorkSpec, DeviceSpec

\* Every variable of the three demos keeps its type, whichever is inserted.
THEOREM KernelDemosTypeOK == DemoSpec => []DemosTypeOK
BY KernelDemosImplementEach, SemaphoreTypeOK, WorkDemoTypeOK, DeviceDemoTypeOK, PTL
   DEF DemosTypeOK

\* What the three demos promise holds in the specification of the run: mutual exclusion,
\* no race after an abort, text that outlives references and work items, and shows that
\* find their entity.
THEOREM KernelDemosSafe ==
  DemoSpec => /\ [](MutualExclusion /\ AbortedNeverRace /\ TextOutlivesReferences)
              /\ TextOutlivesWork
              /\ []ShowSeesEntity
BY KernelDemosImplementEach, SemaphoreMutualExclusion, SemaphoreAbortedNeverRace,
   SemaphoreTextOutlivesReferences, WorkTextOutlivesWork, DeviceShowSeesEntity, PTL
===============================================================================
