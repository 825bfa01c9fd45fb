------------------------------- MODULE Daemon -------------------------------
(***************************************************************************)
(* The commands that start and stop the Control Tower in the background:   *)
(* run calls ensureServicesRunning, shutdown calls shutdownServices, and   *)
(* reboot calls one after the other.  Each call works under a lock, a file *)
(* that holds the pid of its owner, and tells the next one what it did in  *)
(* daemon.json.  The commands are processes of their own: every look at a  *)
(* file and every write is a step, and a process may go away at any one.   *)
(***************************************************************************)
EXTENDS Naturals, Sequences

CONSTANTS
    Commands,   \* the processes; a Control Tower has the name of its starter
    Calls       \* Calls[p]: what p calls in turn, "ensure" or "shutdown"

None == "none"   \* no pid
NoLock == [owner |-> None, written |-> FALSE]
NoState == [pid |-> None, shuttingDown |-> FALSE]

VARIABLES
    at,       \* at[p]: where the process stands
    calls,    \* the calls p has before it, the current one first
    mem,      \* the pid p has read last, from the lock or from daemon.json
    lock,     \* daemon.lock: [owner, written], or NoLock
    daemon,   \* daemon.json: [pid, shuttingDown], or NoState
    tower,    \* tower[p]: "none", "starting", "serving" or "dead"
    accident  \* what has gone wrong outside the calls' control, if anything

\* What the proofs assume: each process has its list of calls, and none has
\* the name that stands for no pid.
CallsAreLists ==
    /\ Calls \in [Commands -> Seq({"ensure", "shutdown"})]
    /\ None \notin Commands

daemonVars == <<at, calls, mem, lock, daemon, tower, accident>>

Ensuring == {"read", "health", "stale", "spawn", "record", "poll"}
Stopping == {"look", "mark", "kill", "erase"}

\* The places where p believes that the lock is its own.
Inside == {"write", "release", "drop"} \cup Ensuring \cup Stopping
Places == {"lock", "judge", "take", "over", "gone"} \cup Inside

Alive(p) == at[p] # "gone"
Up(t) == tower[t] \in {"starting", "serving"}
Serving == \E t \in Commands : tower[t] = "serving"

TypeOK ==
    /\ at \in [Commands -> Places]
    /\ \A p \in Commands : calls[p] \in Seq({"ensure", "shutdown"})
    /\ mem \in [Commands -> Commands \cup {None}]
    /\ lock \in {NoLock} \cup [owner : Commands, written : BOOLEAN]
    /\ daemon \in {NoState} \cup [pid : Commands, shuttingDown : BOOLEAN]
    /\ tower \in [Commands -> {"none", "starting", "serving", "dead"}]
    /\ accident \in {None, "takeover", "crash"}

Init ==
    /\ at = [p \in Commands |-> "lock"]
    /\ calls = Calls
    /\ mem = [p \in Commands |-> None]
    /\ lock = NoLock /\ daemon = NoState
    /\ tower = [p \in Commands |-> "none"]
    /\ accident = None

Go(p, from, to) == at[p] = from /\ at' = [at EXCEPT ![p] = to]
Remember(p, pid) == mem' = [mem EXCEPT ![p] = pid]

-----------------------------------------------------------------------------
(* acquireLock.                                                            *)

\* openSync with "wx" fails when the file exists; the pid is written after.
OpenLock(p) ==
    /\ lock = NoLock
    /\ Go(p, "lock", "write")
    /\ lock' = [owner |-> p, written |-> FALSE]
    /\ UNCHANGED <<calls, mem, daemon, tower, accident>>

WriteLock(p) ==
    /\ Go(p, "write", IF Head(calls[p]) = "ensure" THEN "read" ELSE "look")
    /\ lock' = IF lock.owner = p THEN [lock EXCEPT !.written = TRUE] ELSE lock
    /\ UNCHANGED <<calls, mem, daemon, tower, accident>>

\* A file without a pid is waited for, like one whose owner lives.
ReadLock(p) ==
    /\ lock.written
    /\ Go(p, "lock", "judge") /\ Remember(p, lock.owner)
    /\ UNCHANGED <<calls, lock, daemon, tower, accident>>

\* A mutant of Judge: whoever finds a lock takes it for a leftover.
JudgeDeadAlways(p) ==
    /\ Go(p, "judge", "take")
    /\ UNCHANGED <<calls, mem, lock, daemon, tower, accident>>

\* Whether the process that the lock names lives.
Judge(p) ==
    /\ \/ Go(p, "judge", "lock") /\ Alive(mem[p]) /\ Remember(p, None)
       \/ Go(p, "judge", "take") /\ ~Alive(mem[p]) /\ UNCHANGED mem
    /\ UNCHANGED <<calls, lock, daemon, tower, accident>>

\* unlinkSync removes what is there now, not what was read.
TakeLock(p) ==
    /\ Go(p, "take", "lock") /\ Remember(p, None)
    /\ lock' = NoLock
    /\ accident' = IF lock # NoLock /\ lock.owner # mem[p] THEN "takeover" ELSE accident
    /\ UNCHANGED <<calls, daemon, tower>>

\* The deadline passes, or the user interrupts the command.
GiveUp(p) ==
    /\ Go(p, "lock", "over")
    /\ UNCHANGED <<calls, mem, lock, daemon, tower, accident>>

\* finally: the next call, or, after an error, none.
Release(p) ==
    /\ \/ Go(p, "release", IF Len(calls[p]) > 1 THEN "lock" ELSE "over")
       \/ Go(p, "drop", "over")
    /\ calls' = [calls EXCEPT ![p] = IF @ = <<>> THEN @ ELSE Tail(@)]
    /\ Remember(p, None)
    /\ lock' = NoLock
    /\ UNCHANGED <<daemon, tower, accident>>

-----------------------------------------------------------------------------
(* ensureServicesRunning.                                                  *)

\* readDaemonState and getControlTowerPid.
Recorded == IF daemon.shuttingDown THEN None ELSE daemon.pid

\* A failing migration, or an abort before it, ends the call.
ReadState(p) ==
    /\ \/ Go(p, "read", "health") /\ Remember(p, Recorded)
       \/ Go(p, "read", "drop") /\ UNCHANGED mem
    /\ UNCHANGED <<calls, lock, daemon, tower, accident>>

\* checkHealth asks the port, and may miss a tower that answers late.
Health(p) ==
    /\ \/ Serving /\ Go(p, "health", "release")
       \/ Go(p, "health", IF mem[p] # None /\ Up(mem[p]) THEN "stale" ELSE "spawn")
    /\ UNCHANGED <<calls, mem, lock, daemon, tower, accident>>

\* A mutant of KillStale: the new tower is started beside the old one.
KillStaleNot(p) ==
    /\ Go(p, "stale", "spawn")
    /\ UNCHANGED <<calls, mem, lock, daemon, tower, accident>>

\* killProcess, of a tower that lives and does not answer.
KillStale(p) ==
    /\ Go(p, "stale", "spawn")
    /\ tower' = [tower EXCEPT ![mem[p]] = "dead"]
    /\ UNCHANGED <<calls, mem, lock, daemon, accident>>

\* Without a pid the call ends in an error.
Spawn(p) ==
    /\ tower[p] = "none"
    /\ \/ Go(p, "spawn", "record") /\ tower' = [tower EXCEPT ![p] = "starting"]
       \/ Go(p, "spawn", "drop") /\ UNCHANGED tower
    /\ UNCHANGED <<calls, mem, lock, daemon, accident>>

Record(p) ==
    /\ Go(p, "record", "poll")
    /\ daemon' = [pid |-> p, shuttingDown |-> FALSE]
    /\ UNCHANGED <<calls, mem, lock, tower, accident>>

\* Healthy; or the deadline or an interruption, which leave the tower starting.
Poll(p) ==
    /\ \/ Serving /\ Go(p, "poll", "release")
       \/ Go(p, "poll", "drop")
    /\ UNCHANGED <<calls, mem, lock, daemon, tower, accident>>

-----------------------------------------------------------------------------
(* shutdownServices.                                                       *)

Look(p) ==
    /\ Go(p, "look", IF Recorded = None THEN "release" ELSE "mark")
    /\ Remember(p, Recorded)
    /\ UNCHANGED <<calls, lock, daemon, tower, accident>>

Mark(p) ==
    /\ Go(p, "mark", "kill")
    /\ daemon' = [pid |-> mem[p], shuttingDown |-> TRUE]
    /\ UNCHANGED <<calls, mem, lock, tower, accident>>

Kill(p) ==
    /\ Go(p, "kill", "erase")
    /\ tower' = [tower EXCEPT ![mem[p]] = IF Up(mem[p]) THEN "dead" ELSE @]
    /\ UNCHANGED <<calls, mem, lock, daemon, accident>>

Erase(p) ==
    /\ Go(p, "erase", "release")
    /\ daemon' = NoState
    /\ UNCHANGED <<calls, mem, lock, tower, accident>>

-----------------------------------------------------------------------------
(* The towers, and the ends of the processes.                              *)

\* A tower that finds its port taken does not start.
Listen(t) ==
    /\ tower[t] = "starting"
    /\ tower' = [tower EXCEPT ![t] = IF Serving THEN "dead" ELSE "serving"]
    /\ UNCHANGED <<at, calls, mem, lock, daemon, accident>>

Die(t) ==
    /\ Up(t)
    /\ tower' = [tower EXCEPT ![t] = "dead"]
    /\ UNCHANGED <<at, calls, mem, lock, daemon, accident>>

\* Once a tower is up that daemon.json does not tell of, or no longer, the end
\* of the process that was about to change one of the two leaves it so.  A lock
\* that was taken over wrongly is not forgotten for that.
Leave(p) ==
    /\ Alive(p) /\ at' = [at EXCEPT ![p] = "gone"] /\ Remember(p, None)
    /\ accident' = IF at[p] \in {"record", "kill"} /\ accident # "takeover"
                   THEN "crash" ELSE accident
    /\ UNCHANGED <<calls, lock, daemon, tower>>

Acquire(p) ==
    \/ OpenLock(p) \/ WriteLock(p) \/ ReadLock(p) \/ Judge(p) \/ TakeLock(p)
    \/ GiveUp(p) \/ Release(p)

Ensure(p) ==
    \/ ReadState(p) \/ Health(p) \/ KillStale(p) \/ Spawn(p) \/ Record(p) \/ Poll(p)

Shutdown(p) == Look(p) \/ Mark(p) \/ Kill(p) \/ Erase(p)

Next ==
    \E p \in Commands :
        Acquire(p) \/ Ensure(p) \/ Shutdown(p) \/ Leave(p) \/ Listen(p) \/ Die(p)

Spec == Init /\ [][Next]_daemonVars

-----------------------------------------------------------------------------
(* Properties.                                                             *)

\* Two commands work on the Control Tower at the same time only after one of
\* them has removed, for the lock of a process that is gone, the lock that
\* another had taken meanwhile: acquireLock reads, judges and unlinks in steps.
LockExcludes ==
    accident # "takeover" =>
        \A p, q \in Commands : at[p] \in Inside /\ at[q] \in Inside => p = q

\* When no command is at work, a Control Tower that runs is the one that
\* daemon.json records, so that shutdown finds it; whatever timed out, was
\* interrupted or went away, unless the lock was taken over wrongly or a
\* command was killed between a change of the tower and that of the file.
RunningIsRecorded ==
    (accident = None /\ \A p \in Commands : at[p] \notin Inside) =>
        \A t \in Commands : Up(t) => Recorded = t

=============================================================================
