---------------------------- MODULE NamedSemaphore ----------------------------
(***************************************************************************)
(* src/linux-c/semaphore/named-semaphore.c, the commands on a POSIX        *)
(* semaphore that lives under a fixed name, and test-named-semaphore.sh,   *)
(* the script that runs them, two of them in the background.               *)
(*                                                                         *)
(* Several runs of the script may overlap, each of them at most once.      *)
(* In the Faulty ones every library call of a command may fail, which ends *)
(* the command, and the script may be killed; in both cases its background *)
(* commands go on.                                                         *)
(*                                                                         *)
(* External: sem_open binds a process to the semaphore the name has at     *)
(* that time, and sem_unlink takes the name from it; a process that has it *)
(* open keeps it.                                                          *)
(***************************************************************************)
EXTENDS Naturals, Sequences, SemaphoreRuns

\* The commands of a run: the one in the foreground and two in the background.
Commands == Runs \X {"fg", "bg1", "bg2"}

VARIABLES
  linked,    \* the run whose semaphore has the name, or "none"
  value,     \* per run: the value of the semaphore it created
  line,      \* per run: the line of the script
  status,    \* per run: running, or how it stopped before its end, failed or killed
  at,        \* per command: idle, open (before sem_open), act (after it), done, failed
  sem,       \* per command: the semaphore it has opened
  printed    \* per run: what its get commands printed

namedVars == <<linked, value, line, status, at, sem, printed>>

\* Mutant: the script does not wait for its background commands.
ScriptWithoutWait == <<"create", "get", "post", "get", "wait", "get", "bg1", "get", "bg2",
                       "get", "post", "get", "post", "get", "unlink", "gone">>

\* Mutant: a post is missing.
ScriptPostsLess == <<"create", "get", "post", "get", "wait", "get", "bg1", "get", "bg2",
                     "get", "post", "get", "get", "join", "unlink", "gone">>

\* Mutant: a wait is missing.
ScriptWaitsLess == <<"create", "get", "post", "get", "get", "bg1", "get", "bg2",
                     "get", "post", "get", "post", "get", "join", "unlink", "gone">>

\* test-named-semaphore.sh; bg is "wait &", join the wait of the shell and gone the
\* look at /dev/shm in the last line.
Script == <<"create", "get", "post", "get", "wait", "get", "bg1", "get", "bg2",
            "get", "post", "get", "post", "get", "join", "unlink", "gone">>

Passed == Len(Script) + 1

NamedInit ==
  /\ linked = "none"
  /\ value = [r \in Runs |-> 0]
  /\ line = [r \in Runs |-> 1]
  /\ status = [r \in Runs |-> "running"]
  /\ at = [c \in Commands |-> IF c[2] = "fg" THEN "open" ELSE "idle"]
  /\ sem = [c \in Commands |-> "none"]
  /\ printed = [r \in Runs |-> <<>>]

Running(r) == status[r] = "running" /\ line[r] < Passed

\* The command that c runs.
CommandOf(c) == IF c[2] = "fg"
                THEN IF Running(c[1]) THEN Script[line[c[1]]] ELSE "none"
                ELSE "wait"

\* c ends.  In the foreground the script goes on, or stops at an error (set -e); nobody
\* looks at the result of a background command.
Finish(c, how) ==
  IF c[2] = "fg"
  THEN /\ at' = [at EXCEPT ![c] = "open"]
       /\ IF how = "done"
          THEN line' = [line EXCEPT ![c[1]] = @ + 1] /\ UNCHANGED status
          ELSE status' = [status EXCEPT ![c[1]] = how] /\ UNCHANGED line
  ELSE at' = [at EXCEPT ![c] = how] /\ UNCHANGED <<line, status>>

\* A command did what it is for and closes the semaphore, which may fail too.
Close(c) == \/ Finish(c, "done")
            \/ c[1] \in Faulty /\ Finish(c, "failed")

\* A library call fails before the command had an effect, for any reason of its own, or
\* the command is killed, which is the same to the shell.
CommandFails(c) ==
  /\ c[1] \in Faulty
  /\ at[c] \in {"open", "act"}
  /\ CommandOf(c) \in {"create", "post", "wait", "get", "unlink"}
  /\ Finish(c, "failed")
  /\ UNCHANGED <<linked, value, sem, printed>>

\* Mutant: an existing semaphore is replaced.
Replaces == TRUE

\* sem_open with O_CREAT | O_EXCL succeeds only if the name is free.
NameFree == linked = "none"

create(r) ==
  /\ CommandOf(<<r, "fg">>) = "create"
  /\ IF NameFree
     THEN linked' = r /\ Close(<<r, "fg">>)
     ELSE UNCHANGED linked /\ Finish(<<r, "fg">>, "failed")
  /\ UNCHANGED <<value, sem, printed>>

unlink(r) ==
  /\ CommandOf(<<r, "fg">>) = "unlink"
  /\ IF linked # "none"
     THEN linked' = "none" /\ Finish(<<r, "fg">>, "done")
     ELSE UNCHANGED linked /\ Finish(<<r, "fg">>, "failed")
  /\ UNCHANGED <<value, sem, printed>>

\* The last line, whose status is the one of the script: it fails if another run has
\* created the name again.
Gone(r) ==
  /\ CommandOf(<<r, "fg">>) = "gone"
  /\ Finish(<<r, "fg">>, IF linked = "none" THEN "done" ELSE "failed")
  /\ UNCHANGED <<linked, value, sem, printed>>

\* The first half of post, wait and get: open_semaphore, which needs the name.
open_semaphore(c) ==
  /\ at[c] = "open" /\ CommandOf(c) \in {"post", "wait", "get"}
  /\ IF linked # "none"
     THEN /\ sem' = [sem EXCEPT ![c] = linked]
          /\ at' = [at EXCEPT ![c] = "act"]
          /\ UNCHANGED <<line, status>>
     ELSE Finish(c, "failed") /\ UNCHANGED sem
  /\ UNCHANGED <<linked, value, printed>>

\* The second half; sem_wait blocks while the value is 0.
post_semaphore(c) ==
  /\ at[c] = "act" /\ CommandOf(c) = "post"
  /\ value' = [value EXCEPT ![sem[c]] = @ + 1]
  /\ Close(c)
  /\ UNCHANGED <<linked, sem, printed>>

wait_semaphore(c) ==
  /\ at[c] = "act" /\ CommandOf(c) = "wait"
  /\ value[sem[c]] > 0
  /\ value' = [value EXCEPT ![sem[c]] = @ - 1]
  /\ Close(c)
  /\ UNCHANGED <<linked, sem, printed>>

get_semaphore(c) ==
  /\ at[c] = "act" /\ CommandOf(c) = "get"
  /\ printed' = [printed EXCEPT ![c[1]] = Append(@, value[sem[c]])]
  /\ Close(c)
  /\ UNCHANGED <<linked, value, sem>>

\* wait &
Background(r) ==
  /\ CommandOf(<<r, "fg">>) \in {"bg1", "bg2"}
  /\ line' = [line EXCEPT ![r] = @ + 1]
  /\ at' = [at EXCEPT ![<<r, Script[line[r]]>>] = "open"]
  /\ UNCHANGED <<linked, value, status, sem, printed>>

\* wait, of the shell: until every background command has ended.
Join(r) ==
  /\ CommandOf(<<r, "fg">>) = "join"
  /\ \A b \in {"bg1", "bg2"} : at[<<r, b>>] \in {"done", "failed"}
  /\ line' = [line EXCEPT ![r] = @ + 1]
  /\ UNCHANGED <<linked, value, status, at, sem, printed>>

KillScript(r) ==
  /\ r \in Faulty /\ Running(r)
  /\ status' = [status EXCEPT ![r] = "killed"]
  /\ UNCHANGED <<linked, value, line, at, sem, printed>>

NamedStep(r) ==
  \/ create(r) \/ unlink(r) \/ Gone(r) \/ Background(r) \/ Join(r)
  \/ \E k \in {"fg", "bg1", "bg2"} :
       LET c == <<r, k>> IN \/ open_semaphore(c) \/ post_semaphore(c)
                            \/ wait_semaphore(c) \/ get_semaphore(c)

-------------------------------------------------------------------------------
(* Properties.                                                             *)

NamedTypeOK ==
  /\ linked \in Runs \cup {"none"}
  /\ value \in [Runs -> 0 .. 2]
  /\ line \in [Runs -> 1 .. Passed]
  /\ status \in [Runs -> {"running", "failed", "killed"}]
  /\ at \in [Commands -> {"idle", "open", "act", "done", "failed"}]
  /\ sem \in [Commands -> Runs \cup {"none"}]
  /\ printed \in [Runs -> Seq(0 .. 2)]

\* Runs that overlap do not disturb each other: every get of the script shows what its
\* own posts and waits have left, whatever other runs do and whatever has failed before.
GetsShowPosts ==
  LET Allowed == <<{0}, {1}, {0}, {0}, {0}, {0, 1}, {0, 1, 2}>>
  IN \A r \in Runs : \A k \in DOMAIN printed[r] : printed[r][k] \in Allowed[k]

\* The name is removed only when both background commands have ended, so that nobody waits
\* at the semaphore, who could never be posted to again, or is about to open it; and a post
\* that is left in it then is one that a failed background command did not take, which the
\* script, whose wait does not look at the result, cannot know.
UnlinkedWhenConsumed ==
  [][(linked # "none" /\ linked' = "none") =>
       LET how(b) == at[<<linked, b>>]
       IN /\ \A b \in {"bg1", "bg2"} : how(b) \in {"done", "failed"}
          /\ value[linked] = 2 => how("bg1") = "failed" /\ how("bg2") = "failed"
          /\ value[linked] = 1 => how("bg1") = "failed" \/ how("bg2") = "failed"]_namedVars
===============================================================================
