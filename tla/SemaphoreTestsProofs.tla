-------------------------- MODULE SemaphoreTestsProofs --------------------------
(***************************************************************************)
(* Proofs about the tests of the POSIX semaphore demos, for any number of  *)
(* overlapping runs, in any of which calls may fail and processes be       *)
(* killed at any point.                                                    *)
(*                                                                         *)
(* The script: the name belongs to a run from its create to its unlink     *)
(* (NameOwner), because O_EXCL keeps the others out and a run that is      *)
(* stopped never gives the name back.  So every command of a run opens the *)
(* semaphore of that run, whose value is what the script has posted and    *)
(* waited for so far, less what the background commands took (RunOK).  A   *)
(* command that failed may have had its effect or not: the script then     *)
(* stands at its line or, as far as the semaphore is concerned, at the     *)
(* next (Reached), and a background wait took a post or not (Takes).       *)
(*                                                                         *)
(* The program: the five stages of a run, told by how many of its rounds   *)
(* are over, fix the values of both semaphores and where parent and child  *)
(* can be (Stage).                                                         *)
(***************************************************************************)
EXTENDS SemaphoreTests, Integers, SequenceTheorems, TLAPS

\* What the script has posted less what it has waited for itself, before line i.
Net(i) == IF i \in {4, 5, 12, 13} THEN 1 ELSE IF i \in 14 .. 18 THEN 2 ELSE 0

\* The get commands before line i.
Gets(i) == IF i \in 15 .. 18 THEN 7 ELSE (i - 1) \div 2

\* What the k-th get may print.
Allowed == <<{0}, {1}, {0}, {0}, {0}, {0, 1}, {0, 1, 2}>>

\* What the background command b of run r may have taken from the semaphore.
Takes(r, b) == IF at[<<r, b>>] = "done" THEN {1}
               ELSE IF at[<<r, b>>] = "failed" THEN {0, 1}
               ELSE {0}

\* The lines before which the semaphore of r can have its value.
Reached(r) == {line[r]} \cup IF status[r] = "failed" THEN {line[r] + 1} ELSE {}

\* The semaphore of r holds what was posted before line i and not yet taken.
Balance(r, i) ==
  \E t1 \in Takes(r, "bg1") : \E t2 \in Takes(r, "bg2") : value[r] = Net(i) - t1 - t2

\* A run has the name from the line after create up to unlink, and already in the line of
\* create if that has failed after it had made the semaphore.
NameOwner ==
  \A r \in Runs : /\ line[r] \in 2 .. 16 => linked = r
                  /\ linked = r => \/ line[r] \in 2 .. 16
                                   \/ line[r] = 1 /\ status[r] = "failed" /\ r \in Faulty

\* The commands of run r: they opened the semaphore of their own run; background
\* commands start in lines 7 and 9, and end before line 16.
CommandsOK(r) ==
  /\ \A k \in {"fg", "bg1", "bg2"} : at[<<r, k>>] = "act" => sem[<<r, k>>] = r
  /\ line[r] \in 1 .. 7 => at[<<r, "bg1">>] = "idle"
  /\ line[r] \in 1 .. 9 => at[<<r, "bg2">>] = "idle"
  /\ line[r] \in {16, 17, 18} =>
       \A b \in {"bg1", "bg2"} : at[<<r, b>>] \in {"done", "failed"}

\* Where a script can have stopped: without failing calls and kills, at create or at the
\* last line only.
StoppedOK(r) ==
  r \notin Faulty => /\ status[r] # "killed"
                     /\ status[r] = "failed" => line[r] \in {1, 17}

\* The semaphore holds what was posted and not yet taken; every get printed an allowed value.
RunOK(r) ==
  /\ CommandsOK(r)
  /\ StoppedOK(r)
  /\ \E i \in Reached(r) : Balance(r, i) /\ Len(printed[r]) = Gets(i)
  /\ \A k \in 1 .. Len(printed[r]) : printed[r][k] \in Allowed[k]

NamedInv == NamedTypeOK /\ NameOwner /\ \A r \in Runs : RunOK(r)

\* What the program tells, in order.
Order == <<"parent produced", "child consumed", "child produced", "parent consumed">>
Told  == {"parent produced", "child consumed", "child produced", "parent consumed"}

\* Where parent and child can be when n rounds are over.
ParentAt(n) == CASE n = 0 -> {"get_shm", "init", "produce", "failed", "killed"}
                 [] n \in 1 .. 3 -> {"consume", "failed", "killed"}
                 [] n = 4 -> {"waitpid", "destroy", "put_shm", "done", "failed", "killed"}
ChildAt(n)  == CASE n = 0 -> {"none", "consume", "failed", "killed"}
                 [] n = 1 -> {"consume", "failed", "killed"}
                 [] n = 2 -> {"produce", "failed", "killed"}
                 [] n \in 3 .. 4 -> {"exit", "done", "killed"}

\* Run r has told n of the four rounds.
Stage(r, n) ==
  /\ rounds[r] = SubSeq(Order, 1, n)
  /\ posted[r].parent_sem = (IF n = 1 THEN 1 ELSE 0)
  /\ posted[r].child_sem = (IF n = 3 THEN 1 ELSE 0)
  /\ parent[r] \in ParentAt(n)
  /\ child[r] \in ChildAt(n)
  /\ parent[r] \in {"get_shm", "init"} => child[r] = "none"
  /\ parent[r] = "produce" => child[r] # "none"
  /\ parent[r] \in {"destroy", "put_shm", "done"} => child[r] \in {"done", "killed"}

\* The shared memory object belongs to a run from shm_open to shm_unlink, and for good
\* if the run was stopped in between, which only a fault does.
ShmOwner ==
  \A r \in Runs :
    /\ parent[r] \in {"init", "produce", "consume", "waitpid", "destroy", "put_shm"} => shm = r
    /\ shm = r => /\ parent[r] \notin {"get_shm", "done"}
                  /\ parent[r] \in {"failed", "killed"} => r \in Faulty

UnnamedTypes == UnnamedTypeOK /\ rounds \in [Runs -> Seq(Told)]

UnnamedInv == UnnamedTypes /\ ShmOwner /\ \A r \in Runs : \E n \in 0 .. 4 : Stage(r, n)

IInv == NamedInv /\ UnnamedInv

-------------------------------------------------------------------------------
(* The script.                                                             *)

\* The lines of each command in test-named-semaphore.sh.
LEMMA ScriptLines ==
  ASSUME NEW i \in 1 .. 17
  PROVE  /\ Script[i] = "create" => i = 1
         /\ Script[i] = "get" => i \in {2, 4, 6, 8, 10, 12, 14}
         /\ Script[i] = "post" => i \in {3, 11, 13}
         /\ Script[i] = "wait" => i = 5
         /\ Script[i] = "bg1" => i = 7
         /\ Script[i] = "bg2" => i = 9
         /\ Script[i] = "join" => i = 15
         /\ Script[i] = "unlink" => i = 16
         /\ Script[i] = "gone" => i = 17
BY DEF Script

\* The script has 17 commands.
LEMMA ScriptLength == Passed = 18
BY DEF Passed, Script

\* A running script executes the line it is at.
LEMMA RunningLine ==
  ASSUME NamedTypeOK, NEW r \in Runs, CommandOf(<<r, "fg">>) # "none"
  PROVE  /\ status[r] = "running" /\ line[r] \in 1 .. 17
         /\ CommandOf(<<r, "fg">>) = Script[line[r]]
<1>1. line[r] \in 1 .. 18
  BY ScriptLength DEF NamedTypeOK
<1>2. CommandOf(<<r, "fg">>) = IF Running(r) THEN Script[line[r]] ELSE "none"
  BY DEF CommandOf
<1>3. Running(r)
  BY <1>2
<1> QED BY <1>1, <1>2, <1>3, ScriptLength DEF Running

\* What c leaves behind in the script when it ends.
LEMMA FinishFacts ==
  ASSUME NEW r \in Runs
  PROVE  /\ Finish(<<r, "fg">>, "done") =>
              /\ at' = [at EXCEPT ![<<r, "fg">>] = "open"]
              /\ line' = [line EXCEPT ![r] = @ + 1] /\ status' = status
         /\ Finish(<<r, "fg">>, "failed") =>
              /\ at' = [at EXCEPT ![<<r, "fg">>] = "open"]
              /\ status' = [status EXCEPT ![r] = "failed"] /\ line' = line
         /\ \A b \in {"bg1", "bg2"} : \A how : Finish(<<r, b>>, how) =>
              at' = [at EXCEPT ![<<r, b>>] = how] /\ line' = line /\ status' = status
BY DEF Finish

\* A semaphore stays in balance as long as nobody takes from it and those who may have
\* taken from it still may.
LEMMA SameBalance ==
  ASSUME NEW r \in Runs, NEW i, Balance(r, i), value'[r] = value[r],
         \A b \in {"bg1", "bg2"} : Takes(r, b) \subseteq Takes(r, b)'
  PROVE  Balance(r, i)'
<1>1. PICK t1 \in Takes(r, "bg1") : \E t2 \in Takes(r, "bg2") : value[r] = Net(i) - t1 - t2
  BY DEF Balance
<1>2. PICK t2 \in Takes(r, "bg2") : value[r] = Net(i) - t1 - t2
  BY <1>1
<1>3. t1 \in Takes(r, "bg1")' /\ t2 \in Takes(r, "bg2")' /\ value'[r] = Net(i) - t1 - t2
  BY <1>2
<1> QED BY <1>3 DEF Balance

\* After a line of the script comes another or its end.
LEMMA NextLine == \A i \in 1 .. 17 : i + 1 \in 1 .. 18
OBVIOUS

\* The commands stay in order when one in the foreground ends: in its line no background
\* command is started or awaited.
LEMMA CommandsStay ==
  ASSUME NEW r \in Runs, CommandsOK(r), line[r] \in 1 .. 17, line[r] \notin {7, 9, 15},
         line'[r] = line[r] \/ line'[r] = line[r] + 1, sem' = sem,
         at'[<<r, "fg">>] = "open", at'[<<r, "bg1">>] = at[<<r, "bg1">>],
         at'[<<r, "bg2">>] = at[<<r, "bg2">>]
  PROVE  CommandsOK(r)'
<1>1. /\ line'[r] \in 1 .. 7 => line[r] \in 1 .. 7
      /\ line'[r] \in 1 .. 9 => line[r] \in 1 .. 9
      /\ line'[r] \in {16, 17, 18} => line[r] \in {16, 17, 18}
  OBVIOUS
<1> QED BY <1>1 DEF CommandsOK

\* A step that touches only run r, and keeps it in order, keeps the invariant, if the
\* name stays where it belongs.
LEMMA OnlyRun ==
  ASSUME NamedInv, NEW r \in Runs, NamedTypeOK', RunOK(r)', NameOwner',
         \A q \in Runs \ {r} :
           /\ line'[q] = line[q] /\ status'[q] = status[q] /\ value'[q] = value[q]
           /\ printed'[q] = printed[q]
           /\ \A k \in {"fg", "bg1", "bg2"} :
                at'[<<q, k>>] = at[<<q, k>>] /\ sem'[<<q, k>>] = sem[<<q, k>>]
  PROVE  NamedInv'
<1>1. ASSUME NEW q \in Runs \ {r} PROVE RunOK(q)'
  <2>1. RunOK(q)
    BY DEF NamedInv
  <2>2. CommandsOK(q)' /\ StoppedOK(q)'
    BY <2>1 DEF RunOK, CommandsOK, StoppedOK
  <2>3. /\ Takes(q, "bg1")' = Takes(q, "bg1") /\ Takes(q, "bg2")' = Takes(q, "bg2")
        /\ Reached(q)' = Reached(q)
    BY DEF Takes, Reached
  <2>4. PICK i \in Reached(q) : Balance(q, i) /\ Len(printed[q]) = Gets(i)
    BY <2>1 DEF RunOK
  <2>5. Balance(q, i)'
    BY <2>3, <2>4, SameBalance
  <2>6. Len(printed'[q]) = Gets(i) /\ i \in Reached(q)'
    BY <2>3, <2>4
  <2>7. \A k \in 1 .. Len(printed'[q]) : printed'[q][k] \in Allowed[k]
    BY <2>1 DEF RunOK
  <2> QED BY <2>2, <2>5, <2>6, <2>7 DEF RunOK
<1> QED BY <1>1 DEF NamedInv

\* In line i of the script, what posts, waits and gets there were grows by that line.
LEMMA Tables ==
  ASSUME NEW i \in 1 .. 17
  PROVE  /\ Script[i] = "post" => Net(i + 1) = Net(i) + 1 /\ Gets(i + 1) = Gets(i)
         /\ Script[i] = "wait" => Net(i + 1) = Net(i) - 1 /\ Gets(i + 1) = Gets(i)
         /\ Script[i] = "get" => Net(i + 1) = Net(i) /\ Gets(i + 1) = Gets(i) + 1
         /\ Script[i] \in {"create", "bg1", "bg2", "join", "unlink", "gone"} =>
              Net(i + 1) = Net(i) /\ Gets(i + 1) = Gets(i)
         /\ Net(i) \in 0 .. 2 /\ Net(i + 1) \in 0 .. 2 /\ Gets(i) \in 0 .. 7
<1>1. Script[i] = "post" => Net(i + 1) = Net(i) + 1 /\ Gets(i + 1) = Gets(i)
  BY ScriptLines DEF Net, Gets
<1>2. Script[i] = "wait" => Net(i + 1) = Net(i) - 1 /\ Gets(i + 1) = Gets(i)
  BY ScriptLines DEF Net, Gets
<1>3. Script[i] = "get" => Net(i + 1) = Net(i) /\ Gets(i + 1) = Gets(i) + 1
  BY ScriptLines DEF Net, Gets
<1>4. Script[i] \in {"create", "bg1", "bg2", "join", "unlink", "gone"} =>
        Net(i + 1) = Net(i) /\ Gets(i + 1) = Gets(i)
  BY ScriptLines DEF Net, Gets
<1>5. Net(i) \in 0 .. 2 /\ Net(i + 1) \in 0 .. 2 /\ Gets(i) \in 0 .. 7
  BY DEF Net, Gets
<1> QED BY <1>1, <1>2, <1>3, <1>4, <1>5

\* A semaphore of a running script is what was posted less what was taken, and every get
\* so far has printed.
LEMMA RunningBalance ==
  ASSUME NamedInv, NEW r \in Runs, status[r] = "running"
  PROVE  /\ \E t1 \in Takes(r, "bg1") : \E t2 \in Takes(r, "bg2") :
              value[r] = Net(line[r]) - t1 - t2
         /\ Len(printed[r]) = Gets(line[r])
         /\ Takes(r, "bg1") \subseteq {0, 1} /\ Takes(r, "bg2") \subseteq {0, 1}
<1>1. RunOK(r) /\ Reached(r) = {line[r]}
  BY DEF NamedInv, Reached
<1>2. Balance(r, line[r]) /\ Len(printed[r]) = Gets(line[r])
  BY <1>1 DEF RunOK
<1>3. Takes(r, "bg1") \subseteq {0, 1} /\ Takes(r, "bg2") \subseteq {0, 1}
  BY DEF Takes
<1> QED BY <1>2, <1>3 DEF Balance

\* A command in the foreground ends and the script goes on to the next line, or stops there.
ScriptGoes(r) == /\ at' = [at EXCEPT ![<<r, "fg">>] = "open"]
                 /\ line' = [line EXCEPT ![r] = @ + 1] /\ status' = status

ScriptStops(r) == /\ at' = [at EXCEPT ![<<r, "fg">>] = "open"]
                  /\ line' = line /\ status' = [status EXCEPT ![r] = "failed"]
                  /\ r \in Faulty \/ line[r] \in {1, 17}

\* When a command in the foreground ends and the semaphore and what was printed are as they
\* should be before line j, the one of the command or the next, everything is in order.
LEMMA ForegroundKeeps ==
  ASSUME NamedInv, NEW r \in Runs, NEW j \in {line[r], line[r] + 1},
         status[r] = "running", line[r] \in 1 .. 17, line[r] \notin {7, 9, 15},
         ScriptGoes(r) \/ ScriptStops(r), ScriptGoes(r) => j = line[r] + 1,
         sem' = sem, value' \in [Runs -> Int], value'[r] = value[r] + Net(j) - Net(line[r]),
         value'[r] >= 0,
         printed' \in [Runs -> Seq(0 .. 2)], Len(printed'[r]) = Gets(j),
         \A k \in 1 .. Len(printed'[r]) : printed'[r][k] \in Allowed[k],
         \A q \in Runs \ {r} : value'[q] = value[q] /\ printed'[q] = printed[q],
         linked' \in Runs \cup {"none"}, NameOwner'
  PROVE  NamedInv'
<1>0. NamedTypeOK /\ RunOK(r)
  BY DEF NamedInv
<1>1. /\ at' = [at EXCEPT ![<<r, "fg">>] = "open"]
      /\ line' \in [Runs -> 1 .. Passed]
      /\ status' \in [Runs -> {"running", "failed", "killed"}]
      /\ \/ status'[r] = "running" /\ line'[r] = line[r] + 1 /\ j = line[r] + 1
         \/ /\ status'[r] = "failed" /\ line'[r] = line[r]
            /\ r \in Faulty \/ line[r] \in {1, 17}
      /\ \A q \in Runs \ {r} : line'[q] = line[q] /\ status'[q] = status[q]
  <2>1. line \in [Runs -> 1 .. 18] /\ status \in [Runs -> {"running", "failed", "killed"}]
    BY <1>0, ScriptLength DEF NamedTypeOK
  <2>2. CASE ScriptGoes(r)
    <3>1. j = line[r] + 1 /\ line[r] + 1 \in 1 .. 18
      BY <2>2, NextLine
    <3> QED BY <2>1, <2>2, <3>1, ScriptLength DEF ScriptGoes
  <2>3. CASE ScriptStops(r)
    BY <2>1, <2>3, ScriptLength DEF ScriptStops
  <2> QED BY <2>2, <2>3
<1>2. \A q \in Runs, k \in {"fg", "bg1", "bg2"} :
        at'[<<q, k>>] = IF q = r /\ k = "fg" THEN "open" ELSE at[<<q, k>>]
  BY <1>0, <1>1 DEF NamedTypeOK, Commands
<1>3. Takes(r, "bg1")' = Takes(r, "bg1") /\ Takes(r, "bg2")' = Takes(r, "bg2")
  BY <1>2 DEF Takes
<1>4. PICK t1 \in Takes(r, "bg1") : \E t2 \in Takes(r, "bg2") :
        value[r] = Net(line[r]) - t1 - t2
  BY RunningBalance
<1>5. PICK t2 \in Takes(r, "bg2") : value[r] = Net(line[r]) - t1 - t2
  BY <1>4
<1>6. /\ t1 \in {0, 1} /\ t2 \in {0, 1} /\ Net(line[r]) \in 0 .. 2 /\ Net(j) \in 0 .. 2
  BY RunningBalance, Tables
<1>7. value'[r] = Net(j) - t1 - t2 /\ value'[r] \in 0 .. 2
  BY <1>5, <1>6
<1>8. NamedTypeOK'
  <2>1. value' \in [Runs -> 0 .. 2]
    BY <1>0, <1>7 DEF NamedTypeOK
  <2> QED BY <1>0, <1>1, <2>1 DEF NamedTypeOK, Commands
<1>9. RunOK(r)'
  <2>1. CommandsOK(r)'
    <3>1. /\ at'[<<r, "fg">>] = "open" /\ at'[<<r, "bg1">>] = at[<<r, "bg1">>]
          /\ at'[<<r, "bg2">>] = at[<<r, "bg2">>]
      BY <1>2
    <3>2. line'[r] = line[r] \/ line'[r] = line[r] + 1
      BY <1>1
    <3>3. CommandsOK(r)
      BY <1>0 DEF RunOK
    <3> QED BY <3>1, <3>2, <3>3, CommandsStay
  <2>2. StoppedOK(r)'
    BY <1>1 DEF StoppedOK
  <2>3. j \in Reached(r)'
    BY <1>1 DEF Reached
  <2>4. Balance(r, j)'
    BY <1>3, <1>7 DEF Balance
  <2> QED BY <2>1, <2>2, <2>3, <2>4 DEF RunOK
<1>10. ASSUME NEW q \in Runs \ {r}
      PROVE  /\ line'[q] = line[q] /\ status'[q] = status[q] /\ value'[q] = value[q]
             /\ printed'[q] = printed[q]
             /\ \A k \in {"fg", "bg1", "bg2"} :
                  at'[<<q, k>>] = at[<<q, k>>] /\ sem'[<<q, k>>] = sem[<<q, k>>]
  BY <1>1, <1>2
<1> QED BY <1>8, <1>9, <1>10, OnlyRun

\* How a command ends that did what it is for.
LEMMA CloseFacts ==
  ASSUME NEW r \in Runs
  PROVE  /\ Close(<<r, "fg">>) => ScriptGoes(r) \/ (ScriptStops(r) /\ r \in Faulty)
         /\ \A b \in {"bg1", "bg2"} : Close(<<r, b>>) =>
              /\ \E how \in {"done", "failed"} : at' = [at EXCEPT ![<<r, b>>] = how]
              /\ line' = line /\ status' = status
<1>1. /\ Finish(<<r, "fg">>, "done") => ScriptGoes(r)
      /\ Finish(<<r, "fg">>, "failed") /\ r \in Faulty => ScriptStops(r)
  BY FinishFacts DEF ScriptGoes, ScriptStops
<1>2. ASSUME NEW b \in {"bg1", "bg2"}, NEW how \in {"done", "failed"}, Finish(<<r, b>>, how)
      PROVE  at' = [at EXCEPT ![<<r, b>>] = how] /\ line' = line /\ status' = status
  BY <1>2, FinishFacts
<1>3. \A k \in {"fg", "bg1", "bg2"} : Close(<<r, k>>) =>
        Finish(<<r, k>>, "done") \/ (r \in Faulty /\ Finish(<<r, k>>, "failed"))
  BY DEF Close
<1> QED BY <1>1, <1>2, <1>3

\* A command that leaves the semaphore and what was printed alone ends.
LEMMA QuietKeeps ==
  ASSUME NamedInv, NEW r \in Runs, status[r] = "running", line[r] \in 1 .. 17,
         line[r] \notin {7, 9, 15}, ScriptGoes(r) \/ ScriptStops(r),
         ScriptGoes(r) => Script[line[r]] \in {"create", "unlink", "gone"},
         UNCHANGED <<value, sem, printed>>, linked' \in Runs \cup {"none"}, NameOwner'
  PROVE  NamedInv'
<1>0. NamedTypeOK /\ RunOK(r)
  BY DEF NamedInv
<1>1. PICK j \in {line[r], line[r] + 1} :
        /\ Net(j) = Net(line[r]) /\ Gets(j) = Gets(line[r])
        /\ ScriptGoes(r) => j = line[r] + 1
  BY Tables
<1>2. /\ value' \in [Runs -> Int] /\ value'[r] = value[r] + Net(j) - Net(line[r])
      /\ value'[r] >= 0
  <2>1. value[r] \in 0 .. 2 /\ Net(line[r]) \in 0 .. 2
    BY <1>0, Tables DEF NamedTypeOK
  <2> QED BY <1>0, <1>1, <2>1 DEF NamedTypeOK
<1>3. /\ printed' \in [Runs -> Seq(0 .. 2)] /\ Len(printed'[r]) = Gets(j)
      /\ \A k \in 1 .. Len(printed'[r]) : printed'[r][k] \in Allowed[k]
  BY <1>0, <1>1, RunningBalance DEF NamedTypeOK, RunOK
<1> HIDE DEF NamedInv
<1> QED BY <1>1, <1>2, <1>3, ForegroundKeeps

\* O_EXCL: one run at a time gets the name.
LEMMA CreateKeeps ==
  ASSUME NamedInv, NEW r \in Runs, create(r)
  PROVE  NamedInv'
<1>0. NamedTypeOK /\ NameOwner /\ RunOK(r)
  BY DEF NamedInv
<1>1. /\ status[r] = "running" /\ line[r] = 1 /\ UNCHANGED <<value, sem, printed>>
      /\ Script[line[r]] = "create"
  BY <1>0, RunningLine, ScriptLines DEF create
<1>2. line[r] \in 1 .. 17 /\ line[r] \notin {7, 9, 15}
  BY <1>1
<1>3. line \in [Runs -> 1 .. 18] /\ status \in [Runs -> {"running", "failed", "killed"}]
  BY <1>0, ScriptLength DEF NamedTypeOK
<1>4. CASE linked = "none"
  <2>1. linked' = r /\ (ScriptGoes(r) \/ (ScriptStops(r) /\ r \in Faulty))
    BY <1>4, CloseFacts DEF create, NameFree
  <2>2. NameOwner'
    <3>1. \A q \in Runs : line[q] \notin 2 .. 16
      BY <1>0, <1>4, SemaphoreRunsAssumption DEF NameOwner
    <3>2. \A q \in Runs \ {r} : line'[q] = line[q]
      BY <1>3, <2>1 DEF ScriptGoes, ScriptStops
    <3>3. line'[r] = 2 \/ (line'[r] = 1 /\ status'[r] = "failed" /\ r \in Faulty)
      BY <1>1, <1>3, <2>1 DEF ScriptGoes, ScriptStops
    <3> QED BY <2>1, <3>1, <3>2, <3>3 DEF NameOwner
  <2> QED BY <1>1, <1>2, <2>1, <2>2, QuietKeeps
<1>5. CASE linked # "none"
  <2>1. linked' = linked /\ ScriptStops(r)
    BY <1>1, <1>5, FinishFacts DEF create, NameFree, ScriptStops
  <2>2. NameOwner'
    BY <1>0, <1>1, <1>3, <2>1 DEF NameOwner, ScriptStops
  <2>3. linked' \in Runs \cup {"none"}
    BY <1>0, <2>1 DEF NamedTypeOK
  <2> QED BY <1>1, <1>2, <2>1, <2>2, <2>3, QuietKeeps
<1> QED BY <1>4, <1>5

\* The run that has the name gives it back at its last line.
LEMMA UnlinkKeeps ==
  ASSUME NamedInv, NEW r \in Runs, unlink(r)
  PROVE  NamedInv' /\ linked = r /\ line[r] = 16 /\ status[r] = "running"
<1>0. NamedTypeOK /\ NameOwner
  BY DEF NamedInv
<1>1. /\ status[r] = "running" /\ line[r] = 16 /\ UNCHANGED <<value, sem, printed>>
      /\ Script[line[r]] = "unlink" /\ line[r] \in 1 .. 17 /\ line[r] \notin {7, 9, 15}
  BY <1>0, RunningLine, ScriptLines DEF unlink
<1>2. linked = r /\ linked # "none"
  BY <1>0, <1>1, SemaphoreRunsAssumption DEF NameOwner
<1>3. linked' = "none" /\ ScriptGoes(r)
  BY <1>2, FinishFacts DEF unlink, ScriptGoes
<1>4. NameOwner'
  <2>1. \A q \in Runs : line'[q] \notin 2 .. 16
    <3>1. line \in [Runs -> 1 .. 18]
      BY <1>0, ScriptLength DEF NamedTypeOK
    <3>2. line'[r] = 17 /\ \A q \in Runs \ {r} : line'[q] = line[q]
      BY <1>1, <1>3, <3>1 DEF ScriptGoes
    <3>3. \A q \in Runs \ {r} : line[q] \notin 2 .. 16
      BY <1>0, <1>2 DEF NameOwner
    <3> QED BY <3>2, <3>3
  <2> QED BY <1>3, <2>1, SemaphoreRunsAssumption DEF NameOwner
<1>5. NamedInv'
  BY <1>1, <1>3, <1>4, QuietKeeps
<1> QED BY <1>1, <1>2, <1>5

\* The last line of the script changes nothing but what the script is told.
LEMMA GoneKeeps ==
  ASSUME NamedInv, NEW r \in Runs, Gone(r)
  PROVE  NamedInv'
<1>0. NamedTypeOK /\ NameOwner
  BY DEF NamedInv
<1>1. /\ status[r] = "running" /\ line[r] = 17 /\ UNCHANGED <<linked, value, sem, printed>>
      /\ Script[line[r]] = "gone" /\ line[r] \in 1 .. 17 /\ line[r] \notin {7, 9, 15}
  BY <1>0, RunningLine, ScriptLines DEF Gone
<1>2. Finish(<<r, "fg">>, "done") \/ Finish(<<r, "fg">>, "failed")
  BY DEF Gone
<1>3. ScriptGoes(r) \/ ScriptStops(r)
  BY <1>1, <1>2, FinishFacts DEF ScriptGoes, ScriptStops
<1>4. NameOwner'
  <2>1. line \in [Runs -> 1 .. 18] /\ status \in [Runs -> {"running", "failed", "killed"}]
    BY <1>0, ScriptLength DEF NamedTypeOK
  <2>2. /\ line'[r] \in {17, 18} /\ line[r] = 17
        /\ \A q \in Runs \ {r} : line'[q] = line[q] /\ status'[q] = status[q]
    BY <1>1, <1>3, <2>1 DEF ScriptGoes, ScriptStops
  <2> QED BY <1>0, <1>1, <2>2 DEF NameOwner
<1>5. linked' \in Runs \cup {"none"}
  BY <1>0, <1>1 DEF NamedTypeOK
<1> QED BY <1>1, <1>3, <1>4, <1>5, QuietKeeps

\* The name stays where it is when its owner goes on between create and unlink, or when a
\* script stops.
LEMMA NameStays ==
  ASSUME NamedInv, NEW r \in Runs, linked' = linked, status[r] = "running",
         \A q \in Runs \ {r} : line'[q] = line[q] /\ status'[q] = status[q],
         line'[r] = line[r] \/ (line'[r] = line[r] + 1 /\ line[r] \in 2 .. 15)
  PROVE  NameOwner' /\ linked' \in Runs \cup {"none"}
<1>0. NamedTypeOK /\ NameOwner
  BY DEF NamedInv
<1>1. line \in [Runs -> 1 .. 18] /\ status \in [Runs -> {"running", "failed", "killed"}]
  BY <1>0, ScriptLength DEF NamedTypeOK
<1>2. \A q \in Runs : line'[q] \in 2 .. 16 <=> line[q] \in 2 .. 16
  BY <1>1
<1>3. linked = r => line[r] \in 2 .. 16
  BY <1>0 DEF NameOwner
<1>4. NameOwner'
  BY <1>0, <1>2, <1>3 DEF NameOwner
<1> QED BY <1>0, <1>4 DEF NamedTypeOK

\* A command fails before it had an effect; a script then stops and keeps the name if it had
\* it, a background command leaves its script to go on.
LEMMA CommandFailsKeeps ==
  ASSUME NamedInv, NEW r \in Runs, NEW k \in {"fg", "bg1", "bg2"}, CommandFails(<<r, k>>)
  PROVE  NamedInv'
<1>0. NamedTypeOK /\ NameOwner /\ RunOK(r)
  BY DEF NamedInv
<1>1. /\ r \in Faulty /\ UNCHANGED <<linked, value, sem, printed>>
      /\ at[<<r, k>>] \in {"open", "act"} /\ Finish(<<r, k>>, "failed")
      /\ CommandOf(<<r, k>>) \in {"create", "post", "wait", "get", "unlink"}
  BY DEF CommandFails
<1>2. CASE k = "fg"
  <2>1. /\ status[r] = "running" /\ line[r] \in 1 .. 17 /\ line[r] \notin {7, 9, 15}
    BY <1>0, <1>1, <1>2, RunningLine, ScriptLines
  <2>2. ScriptStops(r) /\ line' = line
    BY <1>1, <1>2, FinishFacts DEF ScriptStops
  <2>3. NameOwner' /\ linked' \in Runs \cup {"none"}
    <3>1. \A q \in Runs \ {r} : line'[q] = line[q] /\ status'[q] = status[q]
      BY <1>0, <2>2 DEF ScriptStops, NamedTypeOK
    <3> QED BY <1>1, <2>1, <2>2, <3>1, NameStays
  <2>4. ScriptGoes(r) => FALSE
    BY <1>0, <2>1, <2>2 DEF ScriptGoes, NamedTypeOK
  <2> QED BY <1>1, <2>1, <2>2, <2>3, <2>4, QuietKeeps
<1>3. CASE k \in {"bg1", "bg2"}
  <2>1. at' = [at EXCEPT ![<<r, k>>] = "failed"] /\ line' = line /\ status' = status
    BY <1>1, <1>3, FinishFacts
  <2>2. \A q \in Runs, j \in {"fg", "bg1", "bg2"} :
          at'[<<q, j>>] = IF q = r /\ j = k THEN "failed" ELSE at[<<q, j>>]
    BY <1>0, <2>1 DEF NamedTypeOK, Commands
  <2>3. NameOwner'
    BY <1>0, <1>1, <2>1 DEF NameOwner
  <2>4. CommandsOK(r)'
    <3>1. CASE k = "bg1" BY <1>0, <1>1, <2>1, <2>2, <3>1 DEF RunOK, CommandsOK
    <3>2. CASE k = "bg2" BY <1>0, <1>1, <2>1, <2>2, <3>2 DEF RunOK, CommandsOK
    <3> QED BY <1>3, <3>1, <3>2
  <2>5. \A b \in {"bg1", "bg2"} : Takes(r, b) \subseteq Takes(r, b)'
    BY <1>1, <2>2 DEF Takes
  <2>6. RunOK(r)'
    <3>1. PICK i \in Reached(r) : Balance(r, i) /\ Len(printed[r]) = Gets(i)
      BY <1>0 DEF RunOK
    <3>2. Balance(r, i)'
      BY <1>1, <2>5, <3>1, SameBalance
    <3>3. i \in Reached(r)' /\ StoppedOK(r)'
      BY <1>0, <2>1, <3>1 DEF Reached, RunOK, StoppedOK
    <3> QED BY <1>0, <1>1, <2>4, <3>1, <3>2, <3>3 DEF RunOK
  <2>7. NamedTypeOK'
    BY <1>0, <1>1, <2>1 DEF NamedTypeOK, Commands
  <2>8. ASSUME NEW q \in Runs \ {r}
        PROVE  /\ line'[q] = line[q] /\ status'[q] = status[q] /\ value'[q] = value[q]
               /\ printed'[q] = printed[q]
               /\ \A j \in {"fg", "bg1", "bg2"} :
                    at'[<<q, j>>] = at[<<q, j>>] /\ sem'[<<q, j>>] = sem[<<q, j>>]
    BY <1>1, <2>1, <2>2
  <2> QED BY <2>3, <2>6, <2>7, <2>8, OnlyRun
<1> QED BY <1>2, <1>3

\* A command can open the semaphore only while its run has the name, and gets its own.
LEMMA OpenKeeps ==
  ASSUME NamedInv, NEW r \in Runs, NEW k \in {"fg", "bg1", "bg2"}, open_semaphore(<<r, k>>)
  PROVE  NamedInv'
<1> DEFINE c == <<r, k>>
<1>0. NamedTypeOK /\ NameOwner /\ RunOK(r)
  BY DEF NamedInv
<1>1. at[c] = "open" /\ UNCHANGED <<linked, value, printed>>
  BY DEF open_semaphore
<1>2. linked = r
  <2>1. CASE k = "fg"
    <3>1. CommandOf(<<r, "fg">>) \in {"post", "wait", "get"}
      BY <2>1 DEF open_semaphore
    <3>2. line[r] \in 2 .. 16
      BY <1>0, <3>1, RunningLine, ScriptLines
    <3> QED BY <1>0, <3>2 DEF NameOwner
  <2>2. CASE k \in {"bg1", "bg2"}
    <3>1. line[r] \in 2 .. 16
      <4>1. line[r] \in 1 .. 18
        BY <1>0, ScriptLength DEF NamedTypeOK
      <4>2. CASE k = "bg1"
        BY <1>0, <1>1, <4>1, <4>2 DEF RunOK, CommandsOK
      <4>3. CASE k = "bg2"
        BY <1>0, <1>1, <4>1, <4>3 DEF RunOK, CommandsOK
      <4> QED BY <2>2, <4>2, <4>3
    <3> QED BY <1>0, <3>1 DEF NameOwner
  <2> QED BY <2>1, <2>2
<1>3. /\ sem' = [sem EXCEPT ![c] = r] /\ at' = [at EXCEPT ![c] = "act"]
      /\ UNCHANGED <<line, status>>
  BY <1>2, SemaphoreRunsAssumption DEF open_semaphore
<1>4. c \in Commands
  BY DEF Commands
<1>5. NamedTypeOK'
  BY <1>0, <1>1, <1>3, <1>4 DEF NamedTypeOK
<1>6. NameOwner'
  BY <1>0, <1>1, <1>3 DEF NameOwner
<1>7. \A q \in Runs, j \in {"fg", "bg1", "bg2"} :
        /\ at'[<<q, j>>] = IF q = r /\ j = k THEN "act" ELSE at[<<q, j>>]
        /\ sem'[<<q, j>>] = IF q = r /\ j = k THEN r ELSE sem[<<q, j>>]
  BY <1>0, <1>3 DEF NamedTypeOK, Commands
<1>8. RunOK(r)'
  <2>1. CommandsOK(r)' /\ StoppedOK(r)'
    BY <1>0, <1>1, <1>3, <1>7 DEF RunOK, CommandsOK, StoppedOK
  <2>2. /\ Takes(r, "bg1")' = Takes(r, "bg1") /\ Takes(r, "bg2")' = Takes(r, "bg2")
        /\ Reached(r)' = Reached(r)
    BY <1>1, <1>3, <1>7 DEF Takes, Reached
  <2>3. \A i : Balance(r, i)' <=> Balance(r, i)
    BY <1>1, <2>2 DEF Balance
  <2> QED BY <1>0, <1>1, <2>1, <2>2, <2>3 DEF RunOK
<1> QED BY <1>0, <1>1, <1>3, <1>5, <1>6, <1>7, <1>8, OnlyRun

\* A post of the script raises the value of its own semaphore, a wait lowers it.
LEMMA PostAndWaitKeep ==
  ASSUME NamedInv, NEW r \in Runs, post_semaphore(<<r, "fg">>) \/ wait_semaphore(<<r, "fg">>)
  PROVE  NamedInv'
<1>0. NamedTypeOK /\ NameOwner /\ RunOK(r)
  BY DEF NamedInv
<1>1. PICK d \in {1, -1} :
        /\ CommandOf(<<r, "fg">>) = (IF d = 1 THEN "post" ELSE "wait")
        /\ value' = [value EXCEPT ![r] = value[r] + d] /\ value[r] + d >= 0
  <2>1. \A q \in Runs : value[q] \in 0 .. 2
    BY <1>0 DEF NamedTypeOK
  <2>2. sem[<<r, "fg">>] = r
    BY <1>0 DEF post_semaphore, wait_semaphore, RunOK, CommandsOK
  <2>3. CASE post_semaphore(<<r, "fg">>)
    <3>1. CommandOf(<<r, "fg">>) = "post" /\ value[r] + 1 >= 0
      BY <2>1, <2>3 DEF post_semaphore
    <3>2. value' = [value EXCEPT ![r] = value[r] + 1]
      BY <2>2, <2>3 DEF post_semaphore
    <3> QED BY <3>1, <3>2
  <2>4. CASE wait_semaphore(<<r, "fg">>)
    <3>1. CommandOf(<<r, "fg">>) = "wait" /\ value[r] > 0
      BY <2>2, <2>4 DEF wait_semaphore
    <3>2. value[r] - 1 = value[r] + (-1) /\ value[r] + (-1) >= 0
      BY <2>1, <3>1
    <3>3. value' = [value EXCEPT ![r] = value[r] + (-1)]
      BY <2>2, <2>4, <3>2 DEF wait_semaphore
    <3>4. -1 \in {1, -1} /\ -1 # 1
      OBVIOUS
    <3> QED BY <3>1, <3>2, <3>3, <3>4
  <2> QED BY <2>3, <2>4
<1>2. /\ status[r] = "running" /\ line[r] \in {3, 5, 11, 13}
      /\ Script[line[r]] = (IF d = 1 THEN "post" ELSE "wait")
  BY <1>0, <1>1, RunningLine, ScriptLines
<1>3. /\ ScriptGoes(r) \/ ScriptStops(r)
      /\ linked' = linked /\ sem' = sem /\ printed' = printed
  BY CloseFacts DEF post_semaphore, wait_semaphore
<1>4. Net(line[r] + 1) = Net(line[r]) + d /\ Gets(line[r] + 1) = Gets(line[r])
  BY <1>2, Tables
<1>5. /\ value' \in [Runs -> Int] /\ value'[r] >= 0
      /\ value'[r] = value[r] + Net(line[r] + 1) - Net(line[r])
      /\ \A q \in Runs \ {r} : value'[q] = value[q]
  <2>1. value \in [Runs -> 0 .. 2] /\ Net(line[r]) \in 0 .. 2
    BY <1>0, <1>2, Tables DEF NamedTypeOK
  <2> QED BY <1>1, <1>4, <2>1
<1>6. /\ printed' \in [Runs -> Seq(0 .. 2)] /\ Len(printed'[r]) = Gets(line[r] + 1)
      /\ \A k \in 1 .. Len(printed'[r]) : printed'[r][k] \in Allowed[k]
  BY <1>0, <1>2, <1>3, <1>4, RunningBalance DEF NamedTypeOK, RunOK
<1>7. NameOwner' /\ linked' \in Runs \cup {"none"}
  <2>1. line \in [Runs -> 1 .. 18] /\ status \in [Runs -> {"running", "failed", "killed"}]
    BY <1>0, ScriptLength DEF NamedTypeOK
  <2>2. /\ \A q \in Runs \ {r} : line'[q] = line[q] /\ status'[q] = status[q]
        /\ line'[r] = line[r] \/ line'[r] = line[r] + 1
    BY <1>3, <2>1 DEF ScriptGoes, ScriptStops
  <2>3. line[r] \in 2 .. 15
    BY <1>2
  <2> QED BY <1>2, <1>3, <2>2, <2>3, NameStays
<1>8. line[r] \in 1 .. 17 /\ line[r] \notin {7, 9, 15}
  BY <1>2
<1> QED BY <1>1, <1>2, <1>3, <1>5, <1>6, <1>7, <1>8, ForegroundKeeps

\* A background command that gets past sem_wait takes what its own run has posted.
LEMMA BackgroundWaitKeeps ==
  ASSUME NamedInv, NEW r \in Runs, NEW b \in {"bg1", "bg2"}, wait_semaphore(<<r, b>>)
  PROVE  NamedInv'
<1>0. NamedTypeOK /\ NameOwner /\ RunOK(r)
  BY DEF NamedInv
<1>1. /\ linked' = linked /\ sem' = sem /\ printed' = printed
      /\ at[<<r, b>>] = "act" /\ sem[<<r, b>>] = r
  <2>1. at[<<r, b>>] = "act"
    BY DEF wait_semaphore
  <2>2. sem[<<r, b>>] = r
    BY <1>0, <2>1 DEF RunOK, CommandsOK
  <2> QED BY <2>1, <2>2 DEF wait_semaphore
<1>2. PICK how \in {"done", "failed"} : at' = [at EXCEPT ![<<r, b>>] = how]
  BY CloseFacts DEF wait_semaphore
<1>3. /\ value[r] > 0 /\ value' = [value EXCEPT ![r] = @ - 1]
      /\ line' = line /\ status' = status
  BY <1>1, CloseFacts DEF wait_semaphore
<1>4. NameOwner'
  BY <1>0, <1>1, <1>3 DEF NameOwner
<1>5. \A q \in Runs, j \in {"fg", "bg1", "bg2"} :
        at'[<<q, j>>] = IF q = r /\ j = b THEN how ELSE at[<<q, j>>]
  BY <1>0, <1>2 DEF NamedTypeOK, Commands
<1>6. /\ Takes(r, b) = {0} /\ 1 \in Takes(r, b)'
      /\ \A j \in {"bg1", "bg2"} \ {b} : Takes(r, j)' = Takes(r, j)
  BY <1>1, <1>5 DEF Takes
<1>7. value'[r] = value[r] - 1 /\ value[r] \in 0 .. 2
  BY <1>0, <1>3 DEF NamedTypeOK
<1>8. RunOK(r)'
  <2>1. CommandsOK(r)'
    <3>1. /\ \A j \in {"fg", "bg1", "bg2"} : j # b => at'[<<r, j>>] = at[<<r, j>>]
          /\ at'[<<r, b>>] \in {"done", "failed"}
      BY <1>5
    <3>2. line'[r] = line[r] /\ \A j \in {"fg", "bg1", "bg2"} : sem'[<<r, j>>] = sem[<<r, j>>]
      BY <1>1, <1>3
    <3>3. CASE b = "bg1" BY <1>0, <1>1, <3>1, <3>2, <3>3 DEF RunOK, CommandsOK
    <3>4. CASE b = "bg2" BY <1>0, <1>1, <3>1, <3>2, <3>4 DEF RunOK, CommandsOK
    <3> QED BY <3>3, <3>4
  <2>2. PICK i \in Reached(r) : Balance(r, i) /\ Len(printed[r]) = Gets(i)
    BY <1>0 DEF RunOK
  <2>3. Balance(r, i)'
    <3>1. PICK t1 \in Takes(r, "bg1") : \E t2 \in Takes(r, "bg2") :
            value[r] = Net(i) - t1 - t2
      BY <2>2 DEF Balance
    <3>2. PICK t2 \in Takes(r, "bg2") : value[r] = Net(i) - t1 - t2
      BY <3>1
    <3>3. t1 \in {0, 1} /\ t2 \in {0, 1} /\ Net(i) \in 0 .. 2
      BY DEF Takes, Net
    <3>4. CASE b = "bg1"
      <4>1. t1 = 0 /\ value'[r] = Net(i) - 1 - t2
        BY <1>6, <1>7, <3>2, <3>3, <3>4
      <4>2. 1 \in Takes(r, "bg1")' /\ t2 \in Takes(r, "bg2")'
        BY <1>6, <3>4
      <4> QED BY <4>1, <4>2 DEF Balance
    <3>5. CASE b = "bg2"
      <4>1. t2 = 0 /\ value'[r] = Net(i) - t1 - 1
        BY <1>6, <1>7, <3>2, <3>3, <3>5
      <4>2. t1 \in Takes(r, "bg1")' /\ 1 \in Takes(r, "bg2")'
        BY <1>6, <3>5
      <4> QED BY <4>1, <4>2 DEF Balance
    <3> QED BY <3>4, <3>5
  <2>4. i \in Reached(r)' /\ StoppedOK(r)'
    BY <1>0, <1>3, <2>2 DEF Reached, RunOK, StoppedOK
  <2> QED BY <1>0, <1>1, <2>1, <2>2, <2>3, <2>4 DEF RunOK
<1>9. NamedTypeOK'
  <2>1. value' \in [Runs -> 0 .. 2]
    BY <1>0, <1>3, <1>7 DEF NamedTypeOK
  <2> QED BY <1>0, <1>1, <1>2, <1>3, <2>1 DEF NamedTypeOK, Commands
<1>10. ASSUME NEW q \in Runs \ {r}
      PROVE  /\ line'[q] = line[q] /\ status'[q] = status[q] /\ value'[q] = value[q]
             /\ printed'[q] = printed[q]
             /\ \A k \in {"fg", "bg1", "bg2"} :
                  at'[<<q, k>>] = at[<<q, k>>] /\ sem'[<<q, k>>] = sem[<<q, k>>]
  BY <1>0, <1>1, <1>3, <1>5 DEF NamedTypeOK
<1> QED BY <1>4, <1>8, <1>9, <1>10, OnlyRun

\* A get prints an allowed value.
LEMMA GetAllowed ==
  ASSUME NamedInv, NEW r \in Runs, status[r] = "running", line[r] \in 1 .. 17,
         Script[line[r]] = "get"
  PROVE  value[r] \in Allowed[Gets(line[r]) + 1]
<1>1. line[r] \in {2, 4, 6, 8, 10, 12, 14}
  BY ScriptLines
<1>2. PICK t1 \in Takes(r, "bg1") : \E t2 \in Takes(r, "bg2") :
        value[r] = Net(line[r]) - t1 - t2
  BY RunningBalance
<1>3. PICK t2 \in Takes(r, "bg2") : value[r] = Net(line[r]) - t1 - t2
  BY <1>2
<1>4. t1 \in {0, 1} /\ t2 \in {0, 1} /\ value[r] \in 0 .. 2
  BY RunningBalance DEF NamedInv, NamedTypeOK
<1>5. CASE line[r] \in {2, 4, 6}
  <2>1. t1 = 0 /\ t2 = 0
    <3>1. line[r] \in 1 .. 7 /\ line[r] \in 1 .. 9
      BY <1>5
    <3> QED BY <3>1 DEF Takes, NamedInv, RunOK, CommandsOK
  <2>2. value[r] = Net(line[r])
    BY <1>3, <1>5, <2>1 DEF Net
  <2>3. CASE line[r] = 2
    <3>1. value[r] = 0 /\ Gets(line[r]) + 1 = 1
      BY <2>2, <2>3 DEF Net, Gets
    <3> QED BY <3>1 DEF Allowed
  <2>4. CASE line[r] = 4
    <3>1. value[r] = 1 /\ Gets(line[r]) + 1 = 2
      BY <2>2, <2>4 DEF Net, Gets
    <3> QED BY <3>1 DEF Allowed
  <2>5. CASE line[r] = 6
    <3>1. value[r] = 0 /\ Gets(line[r]) + 1 = 3
      BY <2>2, <2>5 DEF Net, Gets
    <3> QED BY <3>1 DEF Allowed
  <2> QED BY <1>5, <2>3, <2>4, <2>5
<1>6. CASE line[r] \in {8, 10}
  <2>1. value[r] = 0
    BY <1>3, <1>4, <1>6 DEF Net
  <2>2. Gets(line[r]) + 1 \in {4, 5}
    BY <1>6 DEF Gets
  <2> QED BY <2>1, <2>2 DEF Allowed
<1>7. CASE line[r] = 12
  <2>1. value[r] \in {0, 1} /\ Gets(line[r]) + 1 = 6
    BY <1>3, <1>4, <1>7 DEF Net, Gets
  <2> QED BY <2>1 DEF Allowed
<1>8. CASE line[r] = 14
  <2>1. value[r] \in {0, 1, 2} /\ Gets(line[r]) + 1 = 7
    BY <1>3, <1>4, <1>8 DEF Net, Gets
  <2> QED BY <2>1 DEF Allowed
<1> QED BY <1>1, <1>5, <1>6, <1>7, <1>8

\* A get prints the value of the semaphore of its own run.
LEMMA GetKeeps ==
  ASSUME NamedInv, NEW r \in Runs, get_semaphore(<<r, "fg">>)
  PROVE  NamedInv'
<1>0. NamedTypeOK /\ NameOwner /\ RunOK(r)
  BY DEF NamedInv
<1>1. /\ status[r] = "running" /\ line[r] \in 1 .. 17 /\ Script[line[r]] = "get"
      /\ line[r] \in {2, 4, 6, 8, 10, 12, 14}
      /\ linked' = linked /\ sem' = sem /\ value' = value
  BY <1>0, RunningLine, ScriptLines DEF get_semaphore
<1>2. printed' = [printed EXCEPT ![r] = Append(@, value[r])]
  BY <1>0 DEF get_semaphore, RunOK, CommandsOK
<1>3. ScriptGoes(r) \/ ScriptStops(r)
  BY CloseFacts DEF get_semaphore
<1>4. Net(line[r] + 1) = Net(line[r]) /\ Gets(line[r] + 1) = Gets(line[r]) + 1
  BY <1>1, Tables
<1>5. /\ printed'[r] = Append(printed[r], value[r]) /\ printed[r] \in Seq(0 .. 2)
      /\ value[r] \in 0 .. 2 /\ printed' \in [Runs -> Seq(0 .. 2)]
      /\ \A q \in Runs \ {r} : printed'[q] = printed[q]
  <2>1. printed \in [Runs -> Seq(0 .. 2)] /\ value[r] \in 0 .. 2
    BY <1>0 DEF NamedTypeOK
  <2>2. Append(printed[r], value[r]) \in Seq(0 .. 2)
    BY <2>1
  <2> QED BY <1>2, <2>1, <2>2
<1>6. Len(printed[r]) = Gets(line[r]) /\ Gets(line[r]) \in 0 .. 7
  BY <1>1, RunningBalance, Tables
<1>7. Len(printed'[r]) = Gets(line[r] + 1)
  BY <1>4, <1>5, <1>6
<1>8. ASSUME NEW k \in 1 .. Len(printed'[r]) PROVE printed'[r][k] \in Allowed[k]
  <2>1. \A m \in 1 .. Len(printed[r]) : printed[r][m] \in Allowed[m]
    BY <1>0 DEF RunOK
  <2>2. value[r] \in Allowed[Len(printed[r]) + 1]
    BY <1>1, <1>6, GetAllowed
  <2>3. CASE k \in 1 .. Len(printed[r])
    BY <1>5, <2>1, <2>3
  <2>4. CASE k = Len(printed[r]) + 1
    BY <1>5, <2>2, <2>4
  <2> QED BY <1>5, <2>3, <2>4
<1>9. /\ value' \in [Runs -> Int] /\ value'[r] >= 0
      /\ value'[r] = value[r] + Net(line[r] + 1) - Net(line[r])
      /\ \A q \in Runs \ {r} : value'[q] = value[q]
  <2>1. value \in [Runs -> 0 .. 2] /\ Net(line[r]) \in 0 .. 2
    BY <1>0, <1>1, Tables DEF NamedTypeOK
  <2> QED BY <1>1, <1>4, <2>1
<1>10. NameOwner' /\ linked' \in Runs \cup {"none"}
  <2>1. line \in [Runs -> 1 .. 18] /\ status \in [Runs -> {"running", "failed", "killed"}]
    BY <1>0, ScriptLength DEF NamedTypeOK
  <2>2. /\ \A q \in Runs \ {r} : line'[q] = line[q] /\ status'[q] = status[q]
        /\ line'[r] = line[r] \/ line'[r] = line[r] + 1
    BY <1>3, <2>1 DEF ScriptGoes, ScriptStops
  <2>3. line[r] \in 2 .. 15
    BY <1>1
  <2> QED BY <1>1, <2>2, <2>3, NameStays
<1>11. line[r] \notin {7, 9, 15}
  BY <1>1
<1> QED BY <1>1, <1>3, <1>5, <1>7, <1>8, <1>9, <1>10, <1>11, ForegroundKeeps

\* A background command is started in its own line, once.
LEMMA BackgroundKeeps ==
  ASSUME NamedInv, NEW r \in Runs, Background(r)
  PROVE  NamedInv'
<1>0. NamedTypeOK /\ NameOwner /\ RunOK(r)
  BY DEF NamedInv
<1>1. PICK b \in {"bg1", "bg2"} :
        /\ status[r] = "running" /\ line[r] \in 1 .. 17 /\ Script[line[r]] = b
        /\ at' = [at EXCEPT ![<<r, b>>] = "open"]
  BY <1>0, RunningLine DEF Background
<1>2. /\ linked' = linked /\ sem' = sem /\ value' = value /\ printed' = printed
      /\ status' = status /\ line' = [line EXCEPT ![r] = @ + 1]
  BY DEF Background
<1>3. line[r] \in 2 .. 15 /\ line[r] = (IF b = "bg1" THEN 7 ELSE 9)
  BY <1>1, ScriptLines
<1>4. NameOwner' /\ line' \in [Runs -> 1 .. Passed] /\ line'[r] = line[r] + 1
  <2>1. line \in [Runs -> 1 .. 18]
    BY <1>0, ScriptLength DEF NamedTypeOK
  <2>2. line'[r] = line[r] + 1 /\ \A q \in Runs \ {r} : line'[q] = line[q]
    BY <1>2, <2>1
  <2>3. NameOwner'
    BY <1>1, <1>2, <1>3, <2>2, NameStays
  <2> QED BY <1>2, <1>3, <2>1, <2>2, <2>3, ScriptLength
<1>5. \A q \in Runs, j \in {"fg", "bg1", "bg2"} :
        at'[<<q, j>>] = IF q = r /\ j = b THEN "open" ELSE at[<<q, j>>]
  BY <1>0, <1>1 DEF NamedTypeOK, Commands
<1>6. at[<<r, b>>] = "idle"
  BY <1>0, <1>3 DEF RunOK, CommandsOK
<1>7. /\ Net(line'[r]) = Net(line[r]) /\ Gets(line'[r]) = Gets(line[r])
      /\ Takes(r, "bg1")' = Takes(r, "bg1") /\ Takes(r, "bg2")' = Takes(r, "bg2")
  BY <1>1, <1>4, <1>5, <1>6, Tables DEF Takes
<1>8. RunOK(r)'
  <2>1. CommandsOK(r)'
    BY <1>0, <1>2, <1>3, <1>4, <1>5 DEF RunOK, CommandsOK
  <2>2. StoppedOK(r)' /\ Reached(r)' = {line'[r]} /\ Reached(r) = {line[r]}
    BY <1>1, <1>2 DEF StoppedOK, Reached
  <2>3. Balance(r, line[r]) /\ Len(printed[r]) = Gets(line[r])
    BY <1>1, RunningBalance DEF Balance
  <2>4. Balance(r, line[r])' /\ Len(printed'[r]) = Gets(line'[r])
    BY <1>2, <1>7, <2>3 DEF Balance
  <2>5. \A k \in 1 .. Len(printed'[r]) : printed'[r][k] \in Allowed[k]
    BY <1>0, <1>2 DEF RunOK
  <2> QED BY <2>1, <2>2, <2>4, <2>5 DEF RunOK
<1>9. NamedTypeOK'
  BY <1>0, <1>1, <1>2, <1>4 DEF NamedTypeOK, Commands
<1>10. ASSUME NEW q \in Runs \ {r}
      PROVE  /\ line'[q] = line[q] /\ status'[q] = status[q] /\ value'[q] = value[q]
             /\ printed'[q] = printed[q]
             /\ \A k \in {"fg", "bg1", "bg2"} :
                  at'[<<q, k>>] = at[<<q, k>>] /\ sem'[<<q, k>>] = sem[<<q, k>>]
  BY <1>0, <1>2, <1>5 DEF NamedTypeOK
<1> QED BY <1>4, <1>8, <1>9, <1>10, OnlyRun

\* The shell passes its wait when both background commands have ended.
LEMMA JoinKeeps ==
  ASSUME NamedInv, NEW r \in Runs, Join(r)
  PROVE  NamedInv'
<1>0. NamedTypeOK /\ NameOwner /\ RunOK(r)
  BY DEF NamedInv
<1>1. /\ status[r] = "running" /\ line[r] = 15 /\ Script[line[r]] = "join"
  BY <1>0, RunningLine, ScriptLines DEF Join
<1>2. /\ linked' = linked /\ sem' = sem /\ value' = value /\ printed' = printed
      /\ status' = status /\ at' = at /\ line' = [line EXCEPT ![r] = @ + 1]
  BY DEF Join
<1>3. NameOwner' /\ line' \in [Runs -> 1 .. Passed] /\ line'[r] = 16
  <2>1. line \in [Runs -> 1 .. 18]
    BY <1>0, ScriptLength DEF NamedTypeOK
  <2>2. /\ line'[r] = line[r] + 1 /\ line[r] \in 2 .. 15
        /\ \A q \in Runs \ {r} : line'[q] = line[q]
    BY <1>1, <1>2, <2>1
  <2>3. NameOwner'
    BY <1>1, <1>2, <2>2, NameStays
  <2> QED BY <1>1, <1>2, <2>1, <2>2, <2>3, ScriptLength
<1>4. \A b \in {"bg1", "bg2"} : at[<<r, b>>] \in {"done", "failed"}
  BY DEF Join
<1>5. /\ Net(16) = Net(15) /\ Gets(16) = Gets(15)
      /\ Takes(r, "bg1")' = Takes(r, "bg1") /\ Takes(r, "bg2")' = Takes(r, "bg2")
  BY <1>2 DEF Takes, Net, Gets
<1>6. RunOK(r)'
  <2>1. CommandsOK(r)'
    BY <1>0, <1>2, <1>3, <1>4 DEF RunOK, CommandsOK
  <2>2. StoppedOK(r)' /\ 16 \in Reached(r)'
    BY <1>1, <1>2, <1>3 DEF StoppedOK, Reached
  <2>3. Balance(r, 15) /\ Len(printed[r]) = Gets(15)
    BY <1>1, RunningBalance DEF Balance
  <2>4. Balance(r, 16)' /\ Len(printed'[r]) = Gets(16)
    BY <1>2, <1>5, <2>3 DEF Balance
  <2>5. \A k \in 1 .. Len(printed'[r]) : printed'[r][k] \in Allowed[k]
    BY <1>0, <1>2 DEF RunOK
  <2> QED BY <2>1, <2>2, <2>4, <2>5 DEF RunOK
<1>7. NamedTypeOK'
  BY <1>0, <1>2, <1>3 DEF NamedTypeOK
<1>8. ASSUME NEW q \in Runs \ {r}
      PROVE  /\ line'[q] = line[q] /\ status'[q] = status[q] /\ value'[q] = value[q]
             /\ printed'[q] = printed[q]
             /\ \A k \in {"fg", "bg1", "bg2"} :
                  at'[<<q, k>>] = at[<<q, k>>] /\ sem'[<<q, k>>] = sem[<<q, k>>]
  BY <1>0, <1>2 DEF NamedTypeOK
<1> QED BY <1>3, <1>6, <1>7, <1>8, OnlyRun

\* A killed script stays where it is, and keeps the name if it had it.
LEMMA KillKeeps ==
  ASSUME NamedInv, NEW r \in Runs, KillScript(r)
  PROVE  NamedInv'
<1>0. NamedTypeOK /\ NameOwner /\ RunOK(r)
  BY DEF NamedInv
<1>1. /\ linked' = linked /\ sem' = sem /\ value' = value /\ printed' = printed
      /\ status' = [status EXCEPT ![r] = "killed"] /\ at' = at /\ line' = line
      /\ status[r] = "running" /\ r \in Faulty
  BY DEF KillScript, Running
<1>2. NameOwner'
  <2>1. \A q \in Runs \ {r} : status'[q] = status[q]
    BY <1>0, <1>1 DEF NamedTypeOK
  <2> QED BY <1>1, <2>1, NameStays
<1>3. RunOK(r)'
  <2>1. status'[r] = "killed"
    BY <1>0, <1>1 DEF NamedTypeOK
  <2>2. CommandsOK(r)' /\ StoppedOK(r)' /\ line[r] \in Reached(r)'
    BY <1>0, <1>1 DEF RunOK, CommandsOK, StoppedOK, Reached
  <2>3. Takes(r, "bg1")' = Takes(r, "bg1") /\ Takes(r, "bg2")' = Takes(r, "bg2")
    BY <1>1 DEF Takes
  <2>4. Balance(r, line[r]) /\ Len(printed[r]) = Gets(line[r])
    BY <1>1, RunningBalance DEF Balance
  <2>5. Balance(r, line[r])' /\ Len(printed'[r]) = Gets(line[r])
    BY <1>1, <2>3, <2>4 DEF Balance
  <2> QED BY <1>0, <1>1, <2>2, <2>5 DEF RunOK
<1>4. NamedTypeOK'
  BY <1>0, <1>1 DEF NamedTypeOK
<1>5. ASSUME NEW q \in Runs \ {r}
      PROVE  /\ line'[q] = line[q] /\ status'[q] = status[q] /\ value'[q] = value[q]
             /\ printed'[q] = printed[q]
             /\ \A k \in {"fg", "bg1", "bg2"} :
                  at'[<<q, k>>] = at[<<q, k>>] /\ sem'[<<q, k>>] = sem[<<q, k>>]
  BY <1>0, <1>1 DEF NamedTypeOK
<1> QED BY <1>2, <1>3, <1>4, <1>5, OnlyRun

\* Every step of a run of the script keeps the invariant.
LEMMA NamedStepKeeps ==
  ASSUME NamedInv, NEW r \in Runs, NamedStep(r)
  PROVE  NamedInv'
<1>1. ASSUME NEW b \in {"bg1", "bg2"} PROVE CommandOf(<<r, b>>) = "wait"
  BY DEF CommandOf
<1>2. ASSUME NEW k \in {"fg", "bg1", "bg2"}, open_semaphore(<<r, k>>) PROVE NamedInv'
  BY <1>2, OpenKeeps
<1>3. ASSUME NEW k \in {"fg", "bg1", "bg2"}, post_semaphore(<<r, k>>) PROVE NamedInv'
  <2>1. k = "fg"
    BY <1>1, <1>3 DEF post_semaphore
  <2> QED BY <1>3, <2>1, PostAndWaitKeep
<1>4. ASSUME NEW k \in {"fg", "bg1", "bg2"}, wait_semaphore(<<r, k>>) PROVE NamedInv'
  <2>1. CASE k = "fg" BY <1>4, <2>1, PostAndWaitKeep
  <2>2. CASE k \in {"bg1", "bg2"} BY <1>4, <2>2, BackgroundWaitKeeps
  <2> QED BY <2>1, <2>2
<1>5. ASSUME NEW k \in {"fg", "bg1", "bg2"}, get_semaphore(<<r, k>>) PROVE NamedInv'
  <2>1. k = "fg"
    BY <1>1, <1>5 DEF get_semaphore
  <2> QED BY <1>5, <2>1, GetKeeps
<1> QED BY <1>2, <1>3, <1>4, <1>5, CreateKeeps, UnlinkKeeps, GoneKeeps, BackgroundKeeps, JoinKeeps
        DEF NamedStep

-------------------------------------------------------------------------------
(* The program.                                                            *)

\* The stages in which parent and child can be at a point.
LEMMA StageOf ==
  ASSUME NEW r \in Runs, NEW n \in 0 .. 4, Stage(r, n)
  PROVE  /\ parent[r] \in {"get_shm", "init", "produce"} => n = 0
         /\ parent[r] = "consume" => n \in 1 .. 3
         /\ parent[r] \in {"waitpid", "destroy", "put_shm", "done"} => n = 4
         /\ child[r] = "none" => n = 0
         /\ child[r] = "consume" => n \in 0 .. 1
         /\ child[r] = "produce" => n = 2
         /\ child[r] \in {"exit", "done"} => n \in 3 .. 4
         /\ posted[r].parent_sem > 0 => n = 1
         /\ posted[r].child_sem > 0 => n = 3
<1>1. n \in {0, 1, 2, 3, 4}
  OBVIOUS
<1>2. CASE n = 0 BY <1>2 DEF Stage, ParentAt, ChildAt
<1>3. CASE n = 1 BY <1>3 DEF Stage, ParentAt, ChildAt
<1>4. CASE n = 2 BY <1>4 DEF Stage, ParentAt, ChildAt
<1>5. CASE n = 3 BY <1>5 DEF Stage, ParentAt, ChildAt
<1>6. CASE n = 4 BY <1>6 DEF Stage, ParentAt, ChildAt
<1> QED BY <1>1, <1>2, <1>3, <1>4, <1>5, <1>6

\* What was told after m rounds.
LEMMA OrderPrefix ==
  ASSUME NEW m \in 0 .. 4
  PROVE  /\ SubSeq(Order, 1, m) \in Seq(Told) /\ Len(SubSeq(Order, 1, m)) = m
         /\ \A i \in 1 .. m : SubSeq(Order, 1, m)[i] = Order[i]
         /\ \A i \in 1 .. 4 : Order[i] \in Told
<1>1. \A i \in 1 .. 4 : Order[i] \in Told
  <2>1. /\ Order[1] = "parent produced" /\ Order[2] = "child consumed"
        /\ Order[3] = "child produced" /\ Order[4] = "parent consumed"
    BY DEF Order
  <2>2. \A i \in 1 .. 4 : i \in {1, 2, 3, 4}
    OBVIOUS
  <2> QED BY <2>1, <2>2 DEF Told
<1>2. \A i \in 1 .. m : Order[i] \in Told
  BY <1>1
<1>3. /\ SubSeq(Order, 1, m) \in Seq(Told)
      /\ Len(SubSeq(Order, 1, m)) = IF 1 <= m THEN m - 1 + 1 ELSE 0
      /\ \A i \in 1 .. m - 1 + 1 : SubSeq(Order, 1, m)[i] = Order[1 + i - 1]
  BY <1>2, SubSeqProperties
<1> QED BY <1>1, <1>3

\* One more round.
LEMMA NextRound ==
  ASSUME NEW n \in 0 .. 3
  PROVE  /\ Append(SubSeq(Order, 1, n), Order[n + 1]) = SubSeq(Order, 1, n + 1)
         /\ Order[n + 1] \in Told
<1>1. n \in 0 .. 4 /\ n + 1 \in 0 .. 4 /\ n + 1 \in 1 .. 4
  OBVIOUS
<1>2. Order[n + 1] \in Told
  BY <1>1, OrderPrefix
<1>3. Append(SubSeq(Order, 1, n), Order[n + 1]) = SubSeq(Order, 1, n + 1)
  <2> DEFINE s == SubSeq(Order, 1, n)
             t == SubSeq(Order, 1, n + 1)
  <2>1. /\ s \in Seq(Told) /\ Len(s) = n /\ \A i \in 1 .. n : s[i] = Order[i]
        /\ t \in Seq(Told) /\ Len(t) = n + 1 /\ \A i \in 1 .. n + 1 : t[i] = Order[i]
    BY <1>1, OrderPrefix
  <2> HIDE DEF s, t
  <2>2. /\ Append(s, Order[n + 1]) \in Seq(Told)
        /\ Len(Append(s, Order[n + 1])) = n + 1
        /\ \A i \in 1 .. n : Append(s, Order[n + 1])[i] = Order[i]
        /\ Append(s, Order[n + 1])[n + 1] = Order[n + 1]
    BY <1>2, <2>1, AppendProperties
  <2>3. \A i \in 1 .. n + 1 : Append(s, Order[n + 1])[i] = t[i]
    BY <2>1, <2>2
  <2>4. Append(s, Order[n + 1]) = t
    BY <2>1, <2>2, <2>3, SeqEqual
  <2> QED BY <2>4 DEF s, t
<1> QED BY <1>2, <1>3

\* A step that touches only run r, and keeps it at some stage, keeps the invariant, if the
\* shared memory object stays where it belongs.
LEMMA OnlyProgram ==
  ASSUME UnnamedInv, NEW r \in Runs, UnnamedTypes', ShmOwner',
         NEW n \in 0 .. 4, Stage(r, n)',
         \A q \in Runs \ {r} :
           /\ parent'[q] = parent[q] /\ child'[q] = child[q]
           /\ posted'[q] = posted[q] /\ rounds'[q] = rounds[q]
  PROVE  UnnamedInv'
<1>1. ASSUME NEW q \in Runs \ {r} PROVE \E k \in 0 .. 4 : Stage(q, k)'
  <2>1. PICK k \in 0 .. 4 : Stage(q, k)
    BY DEF UnnamedInv
  <2> QED BY <2>1 DEF Stage
<1> QED BY <1>1 DEF UnnamedInv

\* The parent takes the name, if it is free, and fails otherwise.
LEMMA GetShmKeeps ==
  ASSUME UnnamedInv, NEW r \in Runs, get_shm(r)
  PROVE  UnnamedInv'
<1>0. UnnamedTypes /\ ShmOwner
  BY DEF UnnamedInv
<1>1. PICK n \in 0 .. 4 : Stage(r, n)
  BY DEF UnnamedInv
<1>2. PICK to \in {"init", "failed"} :
        /\ parent[r] = "get_shm" /\ parent' = [parent EXCEPT ![r] = to]
        /\ \/ to = "init" /\ shm = "none" /\ shm' = r
           \/ to = "failed" /\ shm' = shm
  BY DEF get_shm, ParentGoes
<1>3. child' = child /\ posted' = posted /\ rounds' = rounds
  BY DEF get_shm
<1>4. n = 0 /\ parent'[r] = to
  BY <1>0, <1>1, <1>2, StageOf DEF UnnamedTypes, UnnamedTypeOK
<1>5. UnnamedTypes'
  BY <1>0, <1>2, <1>3 DEF UnnamedTypes, UnnamedTypeOK, ParentEnded
<1>6. ShmOwner'
  BY <1>0, <1>2, <1>4, SemaphoreRunsAssumption DEF ShmOwner, UnnamedTypes, UnnamedTypeOK
<1>7. Stage(r, 0)'
  BY <1>1, <1>2, <1>3, <1>4 DEF Stage, ParentAt, ChildAt
<1>8. ASSUME NEW q \in Runs \ {r}
      PROVE  /\ parent'[q] = parent[q] /\ child'[q] = child[q]
             /\ posted'[q] = posted[q] /\ rounds'[q] = rounds[q]
  BY <1>0, <1>2, <1>3 DEF UnnamedTypes, UnnamedTypeOK
<1> QED BY <1>5, <1>6, <1>7, <1>8, OnlyProgram

\* The parent, or whatever stops it, moves it on without a word and without touching the
\* child, the semaphores or the name.
LEMMA ParentMoves ==
  ASSUME UnnamedInv, NEW r \in Runs, NEW from, NEW to, ParentGoes(r, from, to),
         shm' = shm, child' = child, posted' = posted, rounds' = rounds,
         \/ from = "waitpid" /\ to = "destroy" /\ ChildGone(r)
         \/ from = "destroy" /\ to = "put_shm"
         \/ /\ from \notin ParentEnded \cup {"get_shm"} /\ r \in Faulty
            /\ to \in {"failed", "killed"}
  PROVE  UnnamedInv'
<1>0. UnnamedTypes /\ ShmOwner
  BY DEF UnnamedInv
<1>1. PICK n \in 0 .. 4 : Stage(r, n)
  BY DEF UnnamedInv
<1>2. parent[r] = from /\ parent' = [parent EXCEPT ![r] = to]
  BY DEF ParentGoes
<1>3. parent'[r] = to
  BY <1>0, <1>2 DEF UnnamedTypes, UnnamedTypeOK
<1>4. to \in {"failed", "destroy", "put_shm", "killed"}
  OBVIOUS
<1>5. UnnamedTypes'
  BY <1>0, <1>2, <1>4 DEF UnnamedTypes, UnnamedTypeOK, ParentEnded
<1>6. ShmOwner'
  <2>1. shm = r
    BY <1>0, <1>2 DEF ShmOwner, ParentEnded, UnnamedTypes, UnnamedTypeOK
  <2> QED BY <1>0, <1>2, <1>4, <2>1 DEF ShmOwner, UnnamedTypes, UnnamedTypeOK
<1>7. Stage(r, n)'
  <2>1. "killed" \in ParentAt(n) /\ "failed" \in ParentAt(n)
    <3>1. n \in {0, 1, 2, 3, 4}
      OBVIOUS
    <3> QED BY <3>1 DEF ParentAt
  <2>2. to \in ParentAt(n)
    <3>1. CASE to \in {"destroy", "put_shm"}
      BY <1>1, <1>2, <3>1, StageOf DEF ParentAt
    <3> QED BY <1>4, <2>1, <3>1
  <2>3. to \in {"destroy", "put_shm"} => child[r] \in {"done", "killed"}
    <3>1. CASE to = "destroy"
      <4>1. n = 4 /\ child[r] \in {"done", "failed", "killed"}
        BY <1>1, <1>2, <3>1, StageOf DEF ChildGone
      <4> QED BY <1>1, <4>1 DEF Stage, ChildAt
    <3>2. CASE to = "put_shm"
      BY <1>1, <1>2, <3>2 DEF Stage
    <3> QED BY <3>1, <3>2
  <2> QED BY <1>1, <1>3, <1>4, <2>2, <2>3 DEF Stage
<1>8. ASSUME NEW q \in Runs \ {r}
      PROVE  /\ parent'[q] = parent[q] /\ child'[q] = child[q]
             /\ posted'[q] = posted[q] /\ rounds'[q] = rounds[q]
  BY <1>0, <1>2 DEF UnnamedTypes, UnnamedTypeOK
<1> QED BY <1>5, <1>6, <1>7, <1>8, OnlyProgram

\* Both semaphores are initialised and the child is born.
LEMMA ForkKeeps ==
  ASSUME UnnamedInv, NEW r \in Runs, Fork(r)
  PROVE  UnnamedInv'
<1>0. UnnamedTypes /\ ShmOwner
  BY DEF UnnamedInv
<1>1. PICK n \in 0 .. 4 : Stage(r, n)
  BY DEF UnnamedInv
<1>2. /\ parent[r] = "init" /\ parent' = [parent EXCEPT ![r] = "produce"]
      /\ child' = [child EXCEPT ![r] = "consume"]
      /\ shm' = shm /\ posted' = posted /\ rounds' = rounds
  BY DEF Fork, ParentGoes
<1>3. n = 0 /\ parent'[r] = "produce" /\ child'[r] = "consume"
  BY <1>0, <1>1, <1>2, StageOf DEF UnnamedTypes, UnnamedTypeOK
<1>4. UnnamedTypes'
  BY <1>0, <1>2 DEF UnnamedTypes, UnnamedTypeOK
<1>5. ShmOwner'
  BY <1>0, <1>2 DEF ShmOwner, UnnamedTypes, UnnamedTypeOK
<1>6. Stage(r, 0)'
  BY <1>1, <1>2, <1>3 DEF Stage, ParentAt, ChildAt
<1>7. ASSUME NEW q \in Runs \ {r}
      PROVE  /\ parent'[q] = parent[q] /\ child'[q] = child[q]
             /\ posted'[q] = posted[q] /\ rounds'[q] = rounds[q]
  BY <1>0, <1>2 DEF UnnamedTypes, UnnamedTypeOK
<1> QED BY <1>4, <1>5, <1>6, <1>7, OnlyProgram

\* A round: the semaphores and the text go from stage n to stage n + 1, and parent and
\* child to points of that stage.
LEMMA RoundKeeps ==
  ASSUME UnnamedInv, NEW r \in Runs, NEW n \in 0 .. 3, Stage(r, n), NEW to, NEW up,
         rounds' = [rounds EXCEPT ![r] = Append(@, Order[n + 1])],
         posted'[r].parent_sem = (IF n = 0 THEN 1 ELSE 0),
         posted'[r].child_sem = (IF n = 2 THEN 1 ELSE 0),
         \A q \in Runs \ {r} : posted'[q] = posted[q],
         posted' \in [Runs -> [parent_sem : {0, 1}, child_sem : {0, 1}]],
         shm' = shm,
         parent' = [parent EXCEPT ![r] = to], child' = [child EXCEPT ![r] = up],
         to \in ParentAt(n + 1), up \in ChildAt(n + 1),
         to \notin {"get_shm", "init", "produce", "destroy", "put_shm", "done"},
         parent[r] \notin {"get_shm", "done"},
         \/ to \in {"consume", "waitpid"} /\ shm = r
         \/ to \in {"failed", "killed"} /\ to = parent[r]
  PROVE  UnnamedInv'
<1>0. UnnamedTypes /\ ShmOwner
  BY DEF UnnamedInv
<1>1. /\ to \in {"consume", "waitpid", "failed", "killed"}
      /\ up \in {"consume", "produce", "exit", "done", "failed", "killed"}
  <2>1. n \in {0, 1, 2, 3}
    OBVIOUS
  <2>2. CASE n = 0 BY <2>2 DEF ParentAt, ChildAt
  <2>3. CASE n = 1 BY <2>3 DEF ParentAt, ChildAt
  <2>4. CASE n = 2 BY <2>4 DEF ParentAt, ChildAt
  <2>5. CASE n = 3 BY <2>5 DEF ParentAt, ChildAt
  <2> QED BY <2>1, <2>2, <2>3, <2>4, <2>5
<1>2. /\ parent'[r] = to /\ child'[r] = up /\ rounds'[r] = SubSeq(Order, 1, n + 1)
      /\ posted'[r].parent_sem = (IF n + 1 = 1 THEN 1 ELSE 0)
      /\ posted'[r].child_sem = (IF n + 1 = 3 THEN 1 ELSE 0)
  BY <1>0, NextRound DEF Stage, UnnamedTypes, UnnamedTypeOK
<1>3. UnnamedTypes'
  <2>1. rounds' \in [Runs -> Seq(Told)]
    <3>1. rounds[r] \in Seq(Told) /\ Order[n + 1] \in Told
      BY <1>0, NextRound DEF UnnamedTypes
    <3>2. Append(rounds[r], Order[n + 1]) \in Seq(Told)
      BY <3>1, AppendProperties
    <3> QED BY <1>0, <3>2 DEF UnnamedTypes
  <2>2. posted' \in [Runs -> [parent_sem : {0, 1}, child_sem : {0, 1}]]
    OBVIOUS
  <2>3. parent' \in [Runs -> ParentEnded \cup {"get_shm", "init", "produce", "consume",
                                               "waitpid", "destroy", "put_shm"}]
    BY <1>0, <1>1 DEF UnnamedTypes, UnnamedTypeOK, ParentEnded
  <2>4. child' \in [Runs -> {"none", "consume", "produce", "exit", "done", "failed", "killed"}]
    BY <1>0, <1>1 DEF UnnamedTypes, UnnamedTypeOK
  <2> QED BY <1>0, <2>1, <2>2, <2>3, <2>4 DEF UnnamedTypes, UnnamedTypeOK
<1>4. ShmOwner'
  BY <1>0, <1>1 DEF ShmOwner, UnnamedTypes, UnnamedTypeOK
<1>5. Stage(r, n + 1)'
  BY <1>1, <1>2 DEF Stage
<1>6. ASSUME NEW q \in Runs \ {r}
      PROVE  /\ parent'[q] = parent[q] /\ child'[q] = child[q]
             /\ posted'[q] = posted[q] /\ rounds'[q] = rounds[q]
  BY <1>0 DEF UnnamedTypes, UnnamedTypeOK
<1> QED BY <1>3, <1>4, <1>5, <1>6, OnlyProgram

\* The first round begins.
LEMMA ParentProducesKeeps ==
  ASSUME UnnamedInv, NEW r \in Runs, ParentProduces(r)
  PROVE  UnnamedInv'
<1>0. UnnamedTypes /\ ShmOwner
  BY DEF UnnamedInv
<1>1. PICK n \in 0 .. 4 : Stage(r, n)
  BY DEF UnnamedInv
<1>2. parent[r] = "produce" /\ parent' = [parent EXCEPT ![r] = "consume"] /\ shm' = shm
  BY DEF ParentProduces, ParentGoes
<1>3. n = 0
  BY <1>0, <1>1, <1>2, StageOf DEF ParentProduces, UnnamedTypes,
                                   UnnamedTypeOK
<1>4. /\ posted'[r].parent_sem = (IF n = 0 THEN 1 ELSE 0)
      /\ posted'[r].child_sem = (IF n = 2 THEN 1 ELSE 0)
      /\ \A q \in Runs \ {r} : posted'[q] = posted[q]
      /\ posted' \in [Runs -> [parent_sem : {0, 1}, child_sem : {0, 1}]]
  <2>1. posted[r].parent_sem = 0 /\ posted[r].child_sem = 0
    BY <1>1, <1>3 DEF Stage
  <2>2. posted \in [Runs -> [parent_sem : {0, 1}, child_sem : {0, 1}]]
    BY <1>0 DEF UnnamedTypes, UnnamedTypeOK
  <2>3. posted' = [posted EXCEPT ![r]["parent_sem"] = @ + 1]
    BY DEF ParentProduces, Post
  <2>4. /\ posted'[r].parent_sem = 1 /\ posted'[r].child_sem = 0
        /\ \A q \in Runs \ {r} : posted'[q] = posted[q]
    BY <2>1, <2>2, <2>3
  <2>5. posted' \in [Runs -> [parent_sem : {0, 1}, child_sem : {0, 1}]]
    BY <2>1, <2>2, <2>3
  <2> QED BY <1>3, <2>4, <2>5
<1>5. rounds' = [rounds EXCEPT ![r] = Append(@, Order[n + 1])]
  <2>1. Order[n + 1] = "parent produced"
    BY <1>3 DEF Order
  <2> QED BY <2>1 DEF ParentProduces, Round
<1>6. child' = [child EXCEPT ![r] = child[r]]
  BY <1>0 DEF ParentProduces, UnnamedTypes, UnnamedTypeOK
<1>7. "consume" \in ParentAt(n + 1) /\ child[r] \in ChildAt(n + 1)
  BY <1>1, <1>2, <1>3 DEF Stage, ParentAt, ChildAt
<1>8. shm = r
  BY <1>0, <1>2 DEF ShmOwner
<1>9. n \in 0 .. 3
  BY <1>3
<1> QED BY <1>1, <1>2, <1>3, <1>4, <1>5, <1>6, <1>7, <1>8, <1>9, RoundKeeps

\* The child gets past its sem_wait when the parent has posted.
LEMMA ChildConsumesKeeps ==
  ASSUME UnnamedInv, NEW r \in Runs, ChildConsumes(r)
  PROVE  UnnamedInv'
<1>0. UnnamedTypes /\ ShmOwner
  BY DEF UnnamedInv
<1>1. PICK n \in 0 .. 4 : Stage(r, n)
  BY DEF UnnamedInv
<1>2. child[r] = "consume" /\ child' = [child EXCEPT ![r] = "produce"] /\ shm' = shm
  BY DEF ChildConsumes, ChildGoes
<1>3. n = 1
  BY <1>0, <1>1, <1>2, StageOf DEF ChildConsumes, Wait, UnnamedTypes,
                                   UnnamedTypeOK
<1>4. /\ posted'[r].parent_sem = (IF n = 0 THEN 1 ELSE 0)
      /\ posted'[r].child_sem = (IF n = 2 THEN 1 ELSE 0)
      /\ \A q \in Runs \ {r} : posted'[q] = posted[q]
      /\ posted' \in [Runs -> [parent_sem : {0, 1}, child_sem : {0, 1}]]
  <2>1. posted[r].parent_sem = 1 /\ posted[r].child_sem = 0
    BY <1>1, <1>3 DEF Stage
  <2>2. posted \in [Runs -> [parent_sem : {0, 1}, child_sem : {0, 1}]]
    BY <1>0 DEF UnnamedTypes, UnnamedTypeOK
  <2>3. posted' = [posted EXCEPT ![r]["parent_sem"] = @ - 1]
    BY DEF ChildConsumes, Wait
  <2>4. /\ posted'[r].parent_sem = 0 /\ posted'[r].child_sem = 0
        /\ \A q \in Runs \ {r} : posted'[q] = posted[q]
    BY <2>1, <2>2, <2>3
  <2>5. posted' \in [Runs -> [parent_sem : {0, 1}, child_sem : {0, 1}]]
    BY <2>1, <2>2, <2>3
  <2> QED BY <1>3, <2>4, <2>5
<1>5. rounds' = [rounds EXCEPT ![r] = Append(@, Order[n + 1])]
  <2>1. Order[n + 1] = "child consumed"
    BY <1>3 DEF Order
  <2> QED BY <2>1 DEF ChildConsumes, Round
<1>6. parent' = [parent EXCEPT ![r] = parent[r]]
  BY <1>0 DEF ChildConsumes, UnnamedTypes, UnnamedTypeOK
<1>7. /\ parent[r] \in {"consume", "failed", "killed"} /\ parent[r] \in ParentAt(n + 1)
      /\ "produce" \in ChildAt(n + 1)
  BY <1>1, <1>3 DEF Stage, ParentAt, ChildAt
<1>8. parent[r] \in {"failed", "killed"} \/ (parent[r] = "consume" /\ shm = r)
  BY <1>0, <1>7 DEF ShmOwner
<1>9. n \in 0 .. 3
  BY <1>3
<1> QED BY <1>1, <1>2, <1>3, <1>4, <1>5, <1>6, <1>7, <1>8, <1>9, RoundKeeps

\* The second round begins.
LEMMA ChildProducesKeeps ==
  ASSUME UnnamedInv, NEW r \in Runs, ChildProduces(r)
  PROVE  UnnamedInv'
<1>0. UnnamedTypes /\ ShmOwner
  BY DEF UnnamedInv
<1>1. PICK n \in 0 .. 4 : Stage(r, n)
  BY DEF UnnamedInv
<1>2. child[r] = "produce" /\ child' = [child EXCEPT ![r] = "exit"] /\ shm' = shm
  BY DEF ChildProduces, ChildGoes
<1>3. n = 2
  BY <1>0, <1>1, <1>2, StageOf DEF ChildProduces, UnnamedTypes,
                                   UnnamedTypeOK
<1>4. /\ posted'[r].parent_sem = (IF n = 0 THEN 1 ELSE 0)
      /\ posted'[r].child_sem = (IF n = 2 THEN 1 ELSE 0)
      /\ \A q \in Runs \ {r} : posted'[q] = posted[q]
      /\ posted' \in [Runs -> [parent_sem : {0, 1}, child_sem : {0, 1}]]
  <2>1. posted[r].parent_sem = 0 /\ posted[r].child_sem = 0
    BY <1>1, <1>3 DEF Stage
  <2>2. posted \in [Runs -> [parent_sem : {0, 1}, child_sem : {0, 1}]]
    BY <1>0 DEF UnnamedTypes, UnnamedTypeOK
  <2>3. posted' = [posted EXCEPT ![r]["child_sem"] = @ + 1]
    BY DEF ChildProduces, Post
  <2>4. /\ posted'[r].parent_sem = 0 /\ posted'[r].child_sem = 1
        /\ \A q \in Runs \ {r} : posted'[q] = posted[q]
    BY <2>1, <2>2, <2>3
  <2>5. posted' \in [Runs -> [parent_sem : {0, 1}, child_sem : {0, 1}]]
    BY <2>1, <2>2, <2>3
  <2> QED BY <1>3, <2>4, <2>5
<1>5. rounds' = [rounds EXCEPT ![r] = Append(@, Order[n + 1])]
  <2>1. Order[n + 1] = "child produced"
    BY <1>3 DEF Order
  <2> QED BY <2>1 DEF ChildProduces, Round
<1>6. parent' = [parent EXCEPT ![r] = parent[r]]
  BY <1>0 DEF ChildProduces, UnnamedTypes, UnnamedTypeOK
<1>7. /\ parent[r] \in {"consume", "failed", "killed"} /\ parent[r] \in ParentAt(n + 1)
      /\ "exit" \in ChildAt(n + 1)
  BY <1>1, <1>3 DEF Stage, ParentAt, ChildAt
<1>8. parent[r] \in {"failed", "killed"} \/ (parent[r] = "consume" /\ shm = r)
  BY <1>0, <1>7 DEF ShmOwner
<1>9. n \in 0 .. 3
  BY <1>3
<1> QED BY <1>1, <1>2, <1>3, <1>4, <1>5, <1>6, <1>7, <1>8, <1>9, RoundKeeps

\* The parent gets past its sem_wait when the child has posted.
LEMMA ParentConsumesKeeps ==
  ASSUME UnnamedInv, NEW r \in Runs, ParentConsumes(r)
  PROVE  UnnamedInv'
<1>0. UnnamedTypes /\ ShmOwner
  BY DEF UnnamedInv
<1>1. PICK n \in 0 .. 4 : Stage(r, n)
  BY DEF UnnamedInv
<1>2. parent[r] = "consume" /\ parent' = [parent EXCEPT ![r] = "waitpid"] /\ shm' = shm
  BY DEF ParentConsumes, ParentGoes
<1>3. n = 3
  BY <1>0, <1>1, <1>2, StageOf DEF ParentConsumes, Wait, SecondRound, UnnamedTypes,
                                   UnnamedTypeOK
<1>4. /\ posted'[r].parent_sem = (IF n = 0 THEN 1 ELSE 0)
      /\ posted'[r].child_sem = (IF n = 2 THEN 1 ELSE 0)
      /\ \A q \in Runs \ {r} : posted'[q] = posted[q]
      /\ posted' \in [Runs -> [parent_sem : {0, 1}, child_sem : {0, 1}]]
  <2>1. posted[r].parent_sem = 0 /\ posted[r].child_sem = 1
    BY <1>1, <1>3 DEF Stage
  <2>2. posted \in [Runs -> [parent_sem : {0, 1}, child_sem : {0, 1}]]
    BY <1>0 DEF UnnamedTypes, UnnamedTypeOK
  <2>3. posted' = [posted EXCEPT ![r]["child_sem"] = @ - 1]
    BY DEF ParentConsumes, Wait, SecondRound
  <2>4. /\ posted'[r].parent_sem = 0 /\ posted'[r].child_sem = 0
        /\ \A q \in Runs \ {r} : posted'[q] = posted[q]
    BY <2>1, <2>2, <2>3
  <2>5. posted' \in [Runs -> [parent_sem : {0, 1}, child_sem : {0, 1}]]
    BY <2>1, <2>2, <2>3
  <2> QED BY <1>3, <2>4, <2>5
<1>5. rounds' = [rounds EXCEPT ![r] = Append(@, Order[n + 1])]
  <2>1. Order[n + 1] = "parent consumed"
    BY <1>3 DEF Order
  <2> QED BY <2>1 DEF ParentConsumes, Round
<1>6. child' = [child EXCEPT ![r] = child[r]]
  BY <1>0 DEF ParentConsumes, UnnamedTypes, UnnamedTypeOK
<1>7. "waitpid" \in ParentAt(n + 1) /\ child[r] \in ChildAt(n + 1)
  BY <1>1, <1>2, <1>3 DEF Stage, ParentAt, ChildAt
<1>8. shm = r
  BY <1>0, <1>2 DEF ShmOwner
<1>9. n \in 0 .. 3
  BY <1>3
<1> QED BY <1>1, <1>2, <1>3, <1>4, <1>5, <1>6, <1>7, <1>8, <1>9, RoundKeeps

\* The child ends by itself, fails or is killed.
LEMMA ChildMoves ==
  ASSUME UnnamedInv, NEW r \in Runs, NEW to, child' = [child EXCEPT ![r] = to],
         shm' = shm, parent' = parent, posted' = posted, rounds' = rounds,
         child[r] \notin {"none", "done", "failed", "killed"},
         \/ to = "killed"
         \/ to = "done" /\ child[r] = "exit"
         \/ to = "failed" /\ child[r] \in {"consume", "produce"}
  PROVE  UnnamedInv'
<1>0. UnnamedTypes /\ ShmOwner
  BY DEF UnnamedInv
<1>1. PICK n \in 0 .. 4 : Stage(r, n)
  BY DEF UnnamedInv
<1>2. child'[r] = to
  BY <1>0 DEF UnnamedTypes, UnnamedTypeOK
<1>3. UnnamedTypes'
  BY <1>0 DEF UnnamedTypes, UnnamedTypeOK
<1>4. ShmOwner'
  BY <1>0 DEF ShmOwner
<1>5. to \in ChildAt(n)
  <2>1. n \in {0, 1, 2, 3, 4}
    OBVIOUS
  <2>2. CASE to = "killed" BY <2>1, <2>2 DEF ChildAt
  <2>3. CASE to = "done"
    <3>1. n \in {3, 4}
      BY <1>1, <2>1, <2>3, StageOf
    <3> QED BY <2>3, <3>1 DEF ChildAt
  <2>4. CASE to = "failed"
    <3>1. n \in {0, 1, 2}
      BY <1>1, <2>1, <2>4, StageOf
    <3> QED BY <2>4, <3>1 DEF ChildAt
  <2> QED BY <2>2, <2>3, <2>4
<1>6. Stage(r, n)'
  <2>1. to # "none" /\ child[r] \notin {"none", "done", "killed"}
    OBVIOUS
  <2> QED BY <1>1, <1>2, <1>5, <2>1 DEF Stage
<1>7. ASSUME NEW q \in Runs \ {r}
      PROVE  /\ parent'[q] = parent[q] /\ child'[q] = child[q]
             /\ posted'[q] = posted[q] /\ rounds'[q] = rounds[q]
  BY <1>0 DEF UnnamedTypes, UnnamedTypeOK
<1> QED BY <1>3, <1>4, <1>6, <1>7, OnlyProgram

\* The parent gives back the name, which is its own.
LEMMA PutShmKeeps ==
  ASSUME UnnamedInv, NEW r \in Runs, put_shm(r)
  PROVE  UnnamedInv'
<1>0. UnnamedTypes /\ ShmOwner
  BY DEF UnnamedInv
<1>1. PICK n \in 0 .. 4 : Stage(r, n)
  BY DEF UnnamedInv
<1>2. parent[r] = "put_shm"
  BY DEF put_shm, ParentGoes
<1>3. shm = r /\ shm # "none"
  BY <1>0, <1>2, SemaphoreRunsAssumption DEF ShmOwner
<1>4. /\ parent' = [parent EXCEPT ![r] = "done"] /\ shm' = "none"
      /\ child' = child /\ posted' = posted /\ rounds' = rounds
  BY <1>3 DEF put_shm, ParentGoes, NameAfterPut
<1>5. n = 4 /\ parent'[r] = "done" /\ child[r] \in {"done", "killed"}
  BY <1>0, <1>1, <1>2, <1>4, StageOf DEF Stage, UnnamedTypes, UnnamedTypeOK
<1>6. UnnamedTypes'
  BY <1>0, <1>4 DEF UnnamedTypes, UnnamedTypeOK, ParentEnded
<1>7. ShmOwner'
  BY <1>0, <1>3, <1>4, <1>5, SemaphoreRunsAssumption
     DEF ShmOwner, UnnamedTypes, UnnamedTypeOK
<1>8. Stage(r, 4)'
  BY <1>1, <1>4, <1>5 DEF Stage, ParentAt, ChildAt
<1>9. ASSUME NEW q \in Runs \ {r}
      PROVE  /\ parent'[q] = parent[q] /\ child'[q] = child[q]
             /\ posted'[q] = posted[q] /\ rounds'[q] = rounds[q]
  BY <1>0, <1>4 DEF UnnamedTypes, UnnamedTypeOK
<1> QED BY <1>6, <1>7, <1>8, <1>9, OnlyProgram

\* Every step of parent and child, and every fault, keeps the invariant.
LEMMA UnnamedStepKeeps ==
  ASSUME UnnamedInv, NEW r \in Runs, ParentStep(r) \/ ChildStep(r) \/ UnnamedFault(r)
  PROVE  UnnamedInv'
<1>1. CASE WaitPid(r) \/ destroy_semaphores(r)
  BY <1>1, ParentMoves DEF WaitPid, destroy_semaphores
<1>2. CASE ParentFails(r) \/ KillParent(r)
  <2>1. PICK to \in {"failed", "killed"} : ParentGoes(r, parent[r], to)
    BY <1>2 DEF ParentFails, KillParent, ParentGoes
  <2> QED BY <1>2, <2>1, ParentMoves DEF ParentFails, KillParent
<1>3. CASE ChildExits(r) \/ ChildFails(r) \/ KillChild(r)
  BY <1>3, ChildMoves DEF ChildExits, ChildGoes, ChildFails, KillChild
<1> QED BY <1>1, <1>2, <1>3, GetShmKeeps, ForkKeeps, ParentProducesKeeps, ParentConsumesKeeps,
           ChildConsumesKeeps, ChildProducesKeeps, PutShmKeeps
        DEF ParentStep, ChildStep, UnnamedFault

-------------------------------------------------------------------------------
(* Results.                                                                *)

\* At the start nobody has a name and every run is at its first line.
LEMMA InitIInv == Init => IInv
<1> SUFFICES ASSUME Init PROVE IInv
  OBVIOUS
<1>1. NamedInv
  <2> USE DEF Init, NamedInit
  <2>1. NamedTypeOK
    BY ScriptLength DEF NamedTypeOK, Commands
  <2>2. NameOwner
    <3>1. ASSUME NEW r \in Runs PROVE linked # r /\ line[r] = 1
      BY SemaphoreRunsAssumption
    <3> HIDE DEF Init, NamedInit
    <3>2. ASSUME NEW r \in Runs PROVE linked # r /\ line[r] \notin 2 .. 16
      BY <3>1
    <3> QED BY <3>2 DEF NameOwner
  <2>3. ASSUME NEW r \in Runs PROVE RunOK(r)
    <3>1. /\ line[r] = 1 /\ status[r] = "running" /\ value[r] = 0 /\ printed[r] = <<>>
          /\ at[<<r, "fg">>] = "open" /\ at[<<r, "bg1">>] = "idle" /\ at[<<r, "bg2">>] = "idle"
      BY DEF Commands
    <3>2. /\ CommandsOK(r) /\ StoppedOK(r) /\ line[r] \in Reached(r)
          /\ 0 \in Takes(r, "bg1") /\ 0 \in Takes(r, "bg2")
      BY <3>1 DEF CommandsOK, StoppedOK, Reached, Takes
    <3>3. Net(line[r]) = 0 /\ Gets(line[r]) = 0
      BY <3>1 DEF Net, Gets
    <3>4. Len(printed[r]) = 0
      BY <3>1
    <3>5. Balance(r, line[r])
      <4>1. value[r] = Net(line[r]) - 0 - 0
        BY <3>1, <3>3
      <4> QED BY <3>2, <4>1 DEF Balance
    <3> HIDE DEF Init, NamedInit
    <3> QED BY <3>2, <3>3, <3>4, <3>5 DEF RunOK
  <2> QED BY <2>1, <2>2, <2>3 DEF NamedInv
<1>2. UnnamedInv
  <2> USE DEF Init, UnnamedInit
  <2>1. UnnamedTypes
    BY DEF UnnamedTypes, UnnamedTypeOK, ParentEnded
  <2>2. ShmOwner
    BY SemaphoreRunsAssumption DEF ShmOwner
  <2>3. ASSUME NEW r \in Runs PROVE Stage(r, 0)
    <3>1. SubSeq(Order, 1, 0) = <<>>
      BY SubSeqEmpty
    <3> QED BY <3>1 DEF Stage, ParentAt, ChildAt
  <2>4. 0 \in 0 .. 4
    OBVIOUS
  <2> QED BY <2>1, <2>2, <2>3, <2>4 DEF UnnamedInv
<1> QED BY <1>1, <1>2 DEF IInv

\* A step of the script leaves the program alone, and the other way round.
LEMMA NextIInv == IInv /\ [Next]_vars => IInv'
<1> SUFFICES ASSUME IInv, [Next]_vars PROVE IInv'
  OBVIOUS
<1>0. NamedInv /\ UnnamedInv
  BY DEF IInv
<1>1. ASSUME UNCHANGED unnamedVars PROVE UnnamedInv'
  <2>1. /\ UnnamedTypes' = UnnamedTypes /\ ShmOwner' = ShmOwner
        /\ \A r \in Runs : \A n : Stage(r, n)' = Stage(r, n)
    BY <1>1 DEF unnamedVars, UnnamedTypes, UnnamedTypeOK, ShmOwner, Stage
  <2> QED BY <1>0, <2>1 DEF UnnamedInv
<1>2. ASSUME UNCHANGED namedVars PROVE NamedInv'
  <2>1. /\ NamedTypeOK' = NamedTypeOK /\ NameOwner' = NameOwner
        /\ \A r \in Runs : RunOK(r)' = RunOK(r)
    BY <1>2 DEF namedVars, NamedTypeOK, NameOwner, RunOK, CommandsOK, StoppedOK, Balance,
                Reached, Takes
  <2> QED BY <1>0, <2>1 DEF NamedInv
<1>3. ASSUME NEW r \in Runs, Named(r) PROVE IInv'
  BY <1>0, <1>1, <1>3, NamedStepKeeps DEF Named, IInv
<1>4. ASSUME NEW r \in Runs, Parent(r) \/ Child(r) PROVE IInv'
  BY <1>0, <1>2, <1>4, UnnamedStepKeeps DEF Parent, Child, IInv
<1>5. ASSUME NEW r \in Runs, Fault(r) PROVE IInv'
  <2>1. CASE KillScript(r) /\ UNCHANGED unnamedVars
    BY <1>0, <1>1, <2>1, KillKeeps DEF IInv
  <2>2. CASE \E k \in {"fg", "bg1", "bg2"} : CommandFails(<<r, k>>) /\ UNCHANGED unnamedVars
    BY <1>0, <1>1, <2>2, CommandFailsKeeps DEF IInv
  <2>3. CASE UnnamedFault(r) /\ UNCHANGED namedVars
    BY <1>0, <1>2, <2>3, UnnamedStepKeeps DEF IInv
  <2> QED BY <1>5, <2>1, <2>2, <2>3 DEF Fault
<1>6. CASE UNCHANGED vars
  BY <1>0, <1>1, <1>2, <1>6 DEF vars, IInv
<1> QED BY <1>3, <1>4, <1>5, <1>6 DEF Next

\* In every state, each name belongs to one run, and what a run has posted, taken and
\* told follows from how far it got, up to the command that failed in it.
THEOREM SemaphoreTestsInvariant == Spec => []IInv
BY InitIInv, NextIInv, PTL DEF Spec

\* Every variable of both tests keeps its type; in particular no semaphore of the script
\* goes above 2 and none of the program above 1.
THEOREM SemaphoreTestsTypeOK == Spec => []TypeOK
<1>1. IInv => TypeOK
  BY DEF IInv, NamedInv, UnnamedInv, UnnamedTypes, TypeOK
<1> QED BY <1>1, SemaphoreTestsInvariant, PTL

\* What test-named-semaphore.sh reads off the semaphore depends on its own posts and
\* waits only, however many runs overlap and whatever fails or is killed in them.
THEOREM SemaphoreTestsGetsShowPosts == Spec => []GetsShowPosts
<1>1. IInv => GetsShowPosts
  <2> SUFFICES ASSUME IInv, NEW r \in Runs, NEW k \in DOMAIN printed[r]
               PROVE  printed[r][k] \in Allowed[k]
    BY DEF GetsShowPosts, Allowed
  <2>1. printed[r] \in Seq(0 .. 2) /\ RunOK(r)
    BY DEF IInv, NamedInv, NamedTypeOK
  <2>2. k \in 1 .. Len(printed[r])
    BY <2>1
  <2> QED BY <2>1, <2>2 DEF RunOK
<1> QED BY <1>1, SemaphoreTestsInvariant, PTL

\* Parent and child of unnamed-semaphore.c take turns in the order they announce, and
\* the semaphores are destroyed when the child is gone.
THEOREM SemaphoreTestsRoundsInOrder == Spec => []RoundsInOrder
<1>1. IInv => RoundsInOrder
  <2> SUFFICES ASSUME IInv, NEW r \in Runs
               PROVE  /\ rounds[r] = SubSeq(Order, 1, Len(rounds[r]))
                      /\ parent[r] \in {"put_shm", "done"} => child[r] \in {"done", "killed"}
    BY DEF RoundsInOrder, Order
  <2>1. PICK n \in 0 .. 4 : Stage(r, n)
    BY DEF IInv, UnnamedInv
  <2>2. Len(SubSeq(Order, 1, n)) = n
    BY OrderPrefix
  <2> QED BY <2>1, <2>2 DEF Stage
<1> QED BY <1>1, SemaphoreTestsInvariant, PTL

\* The name belongs to the script between its create and its unlink; what a run leaves
\* behind, it leaves because a call failed in it or it was killed.
THEOREM SemaphoreTestsNothingLeftBehind == Spec => []NothingLeftBehind
<1>1. IInv => NothingLeftBehind
  <2> SUFFICES ASSUME IInv PROVE NothingLeftBehind
    OBVIOUS
  <2>1. NamedTypeOK /\ NameOwner /\ \A r \in Runs : StoppedOK(r)
    BY DEF IInv, NamedInv, RunOK
  <2>2. Len(Script) = 17
    BY DEF Script
  <2>3. ASSUME NEW r \in Runs, 1 < line[r], line[r] < 17 PROVE linked = r
    <3>1. line[r] \in 1 .. 18
      BY <2>1, ScriptLength DEF NamedTypeOK
    <3>2. line[r] \in 2 .. 16
      BY <2>3, <3>1
    <3> QED BY <2>1, <3>2 DEF NameOwner
  <2>4. ASSUME linked # "none"
        PROVE  line[linked] < 17 /\ (Running(linked) \/ linked \in Faulty)
    <3>1. linked \in Runs /\ status[linked] \in {"running", "failed", "killed"}
      BY <2>1, <2>4 DEF NamedTypeOK
    <3>2. \/ line[linked] \in 2 .. 16
          \/ line[linked] = 1 /\ linked \in Faulty
      BY <2>1, <3>1 DEF NameOwner
    <3>3. linked \notin Faulty => status[linked] = "running"
      BY <2>1, <3>1, <3>2 DEF StoppedOK
    <3> QED BY <3>2, <3>3, ScriptLength DEF Running
  <2>5. ShmLeftByFailure
    BY DEF IInv, UnnamedInv, ShmOwner, ShmLeftByFailure
  <2> QED BY <2>2, <2>3, <2>4, <2>5 DEF NothingLeftBehind
<1> QED BY <1>1, SemaphoreTestsInvariant, PTL

\* The script unlinks the semaphore only when both background commands have ended; so it
\* takes the name from nobody who still needs it, and if a post is left in the semaphore, a
\* background command has failed without taking it.
THEOREM SemaphoreTestsUnlinkedWhenConsumed == Spec => UnlinkedWhenConsumed
<1> DEFINE Left(r) ==
             /\ \A b \in {"bg1", "bg2"} : at[<<r, b>>] \in {"done", "failed"}
             /\ value[r] = 2 => at[<<r, "bg1">>] = "failed" /\ at[<<r, "bg2">>] = "failed"
             /\ value[r] = 1 => at[<<r, "bg1">>] = "failed" \/ at[<<r, "bg2">>] = "failed"
<1>1. IInv /\ [Next]_vars => [linked # "none" /\ linked' = "none" => Left(linked)]_namedVars
  <2> SUFFICES ASSUME IInv, [Next]_vars, linked # "none", linked' = "none"
               PROVE  Left(linked)
    OBVIOUS
  <2>1. PICK r \in Runs : unlink(r)
    <3>1. UNCHANGED namedVars => linked' = linked
      BY DEF namedVars
    <3>2. PICK r \in Runs : NamedStep(r)
      BY <3>1 DEF Next, Named, Parent, Child, Fault, KillScript, CommandFails, vars
    <3>3. ~create(r)
      BY SemaphoreRunsAssumption DEF create, NameFree
    <3>4. unlink(r)
      BY <3>2, <3>3 DEF NamedStep, Gone, Background, Join, open_semaphore, post_semaphore,
                        wait_semaphore, get_semaphore
    <3> QED BY <3>4
  <2>2. linked = r /\ line[r] = 16 /\ status[r] = "running" /\ NamedInv
    BY <2>1, UnlinkKeeps DEF IInv
  <2>3. \A b \in {"bg1", "bg2"} : at[<<r, b>>] \in {"done", "failed"}
    BY <2>2 DEF NamedInv, RunOK, CommandsOK
  <2>4. PICK t1 \in Takes(r, "bg1") : \E t2 \in Takes(r, "bg2") :
          value[r] = Net(line[r]) - t1 - t2
    BY <2>2, RunningBalance
  <2>5. PICK t2 \in Takes(r, "bg2") : value[r] = Net(line[r]) - t1 - t2
    BY <2>4
  <2>6. value[r] = 2 - t1 - t2
    BY <2>2, <2>5 DEF Net
  <2>7. /\ t1 \in {0, 1} /\ t2 \in {0, 1}
        /\ t1 = 0 => at[<<r, "bg1">>] = "failed"
        /\ t2 = 0 => at[<<r, "bg2">>] = "failed"
    BY <2>3 DEF Takes
  <2> QED BY <2>2, <2>3, <2>6, <2>7
<1> HIDE DEF Left
<1>2. Spec => [][linked # "none" /\ linked' = "none" => Left(linked)]_namedVars
  BY <1>1, SemaphoreTestsInvariant, PTL DEF Spec
<1> QED BY <1>2 DEF UnlinkedWhenConsumed, Left
===============================================================================
