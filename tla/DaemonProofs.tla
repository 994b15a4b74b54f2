----------------------------- MODULE DaemonProofs -----------------------------
(***************************************************************************)
(* Commands that do not overlap keep one daemon, registered, for any number*)
(* of commands, pids, ports and versions and any startup budget.           *)
(*                                                                         *)
(* The properties of the runs speak of daemons that have registered and of *)
(* commands that end.  They rest on what holds in between: which commands  *)
(* have made sure that no daemon is left or none is starting, that a       *)
(* daemon that has yet to register finds no registration, and that what a  *)
(* command has read is still what is registered.                           *)
(***************************************************************************)
EXTENDS Daemon, TLAPS

-----------------------------------------------------------------------------
(* Types.                                                                  *)

\* A command that looks for daemon.json has not used its budget up.
PollsLeft == \A c \in Cmd : pc[c] = "poll" => polls[c] > 0

\* A command that is under way has told the user nothing.
Untold == \A c \in Cmd : pc[c] # "idle" => result[c] = "none"

\* What a command can tell.
Outcome == {"opened", "started", "failed", "stopped", "refused", "interrupted"}

Typed == TypeOK /\ PollsLeft /\ Untold

LEMMA SpecialFiles == NoFile \notin Info /\ Torn \notin Info /\ NoFile # Torn
  BY DaemonConstants

\* A registration names its daemon.
LEMMA InfoOfType ==
  ASSUME TypeOK, NEW d \in Pid
  PROVE  /\ InfoOf(d) \in Info
         /\ InfoOf(d).pid = d /\ InfoOf(d).port = port[d]
         /\ InfoOf(d).version = version[d]
  BY DEF TypeOK, InfoOf, Info

LEMMA InitTyped == Init => Typed
<1> SUFFICES ASSUME Init PROVE Typed
  OBVIOUS
<1>1. port \in [Pid -> Port] /\ version \in [Pid -> Version] /\ expected \in [Cmd -> Version]
  BY DEF Init
<1>2. polls \in [Cmd -> 0 .. Polls] /\ begins \in 0 .. MaxBegins
  BY DaemonConstants DEF Init
<1>3. PollsLeft /\ Untold
  BY DEF Init, PollsLeft, Untold
<1> QED
  BY <1>1, <1>2, <1>3 DEF Init, Typed, TypeOK

\* Ending a command keeps the types (show.rs and stop.rs, returning).
LEMMA ExitTyped ==
  ASSUME Typed, NEW c \in Cmd, NEW how, Exit(c, how),
         how \in Outcome
  PROVE  /\ pc' \in [Cmd -> {"idle", "inspect", "probe", "kill", "unlink", "spawn",
                             "poll", "health", "cleanup", "stop", "stopped"}]
         /\ info' \in [Cmd -> Info \cup {NoInfo}]
         /\ polls' \in [Cmd -> 0 .. Polls]
         /\ result' \in [Cmd -> {"none", "opened", "started", "failed", "stopped",
                                 "refused", "interrupted"}]
         /\ PollsLeft' /\ Untold'
  BY DaemonConstants DEF Typed, TypeOK, PollsLeft, Untold, Exit, Goto, Outcome

\* Signalling a daemon keeps the types.
LEMMA TerminatedTyped ==
  ASSUME TypeOK, NEW d, Terminated(d)
  PROVE  /\ phase' \in [Pid -> Unregistered \cup {"unborn", "start", "serve", "dead"}]
         /\ at' \in [Pid -> {"closed", "tmp", "file"}]
  BY DEF TypeOK, Terminated, Unregistered

LEMMA StepTyped == Typed /\ [Next]_vars => Typed'
<1> SUFFICES ASSUME Typed, [Next]_vars
             PROVE  Typed'
  OBVIOUS
<1> USE DEF Typed
<1>1. ASSUME NEW c \in Cmd, NEW first \in {"inspect", "stop"}, NEW v \in Version, Begin(c, first, v)
      PROVE  Typed'
  BY <1>1, DaemonConstants DEF Begin, Goto, TypeOK, PollsLeft, Untold, files, daemons, Busy
<1>2. ASSUME NEW c \in Cmd, Inspect(c) PROVE Typed'
  BY <1>2 DEF Inspect, Goto, TypeOK, PollsLeft, Untold, files, daemons
<1>3. ASSUME NEW c \in Cmd, Probe(c) PROVE Typed'
  <2>1. CASE Exit(c, "opened")
    BY <1>3, <2>1, ExitTyped DEF Outcome, Probe, TypeOK, files, daemons
  <2>2. CASE Go(c, "kill")
    BY <1>3, <2>2 DEF Probe, Go, Goto, TypeOK, PollsLeft, Untold, files, daemons
  <2> QED BY <1>3, <2>1, <2>2 DEF Probe
<1>4. ASSUME NEW c \in Cmd, KillStale(c) PROVE Typed'
  BY <1>4, TerminatedTyped DEF KillStale, Goto, TypeOK, PollsLeft, Untold
<1>5. ASSUME NEW c \in Cmd, Unlink(c) PROVE Typed'
  BY <1>5 DEF Unlink, Goto, TypeOK, PollsLeft, Untold, daemons
<1>6. ASSUME NEW c \in Cmd, Spawn(c) PROVE Typed'
  BY <1>6, DaemonConstants DEF Spawn, Goto, TypeOK, PollsLeft, Untold, files, Unregistered
<1>7. ASSUME NEW c \in Cmd, Poll(c) PROVE Typed'
  <2>1. CASE Exit(c, "failed")
    BY <1>7, <2>1, ExitTyped DEF Outcome, Poll, TypeOK, files, daemons
  <2>2. CASE ~Exit(c, "failed")
    BY <1>7, <2>2, DaemonConstants DEF Poll, Goto, TypeOK, PollsLeft, Untold, files, daemons
  <2> QED BY <2>1, <2>2
<1>8. ASSUME NEW c \in Cmd, Health(c) PROVE Typed'
  <2>1. CASE Exit(c, "started") /\ UNCHANGED <<phase, at>>
    BY <1>8, <2>1, ExitTyped DEF Outcome, Health, TypeOK
  <2>2. CASE Go(c, "cleanup") /\ Terminated(info[c].pid)
    BY <1>8, <2>2, TerminatedTyped DEF Health, Go, Goto, TypeOK, PollsLeft, Untold
  <2> QED BY <1>8, <2>1, <2>2 DEF Health
<1>9. ASSUME NEW c \in Cmd, Cleanup(c) PROVE Typed'
  BY <1>9, ExitTyped DEF Outcome, Cleanup, TypeOK, daemons
<1>10. ASSUME NEW c \in Cmd, Stop(c) PROVE Typed'
  <2>1. CASE Go(c, "stopped") /\ Terminated(file.pid)
    BY <1>10, <2>1, TerminatedTyped DEF Stop, Go, Goto, TypeOK, PollsLeft, Untold
  <2>2. CASE Exit(c, IF file = NoFile THEN "stopped" ELSE "refused") /\ UNCHANGED <<phase, at>>
    BY <1>10, <2>2, ExitTyped DEF Outcome, Stop, TypeOK
  <2> QED BY <1>10, <2>1, <2>2 DEF Stop
<1>11. ASSUME NEW c \in Cmd, StopUnlink(c) PROVE Typed'
  BY <1>11, ExitTyped DEF Outcome, StopUnlink, TypeOK, daemons
<1>12. ASSUME NEW c \in Cmd, Interrupt(c) PROVE Typed'
  BY <1>12, ExitTyped DEF Outcome, Interrupt, TypeOK, files, daemons
<1>13. ASSUME NEW d \in Pid, NEW q \in Port, BindPort(d, q) PROVE Typed'
  BY <1>13 DEF BindPort, Become, TypeOK, PollsLeft, Untold, files, cmds, Unregistered
<1>14. ASSUME NEW d \in Pid, OpenTmp(d) PROVE Typed'
  BY <1>14 DEF OpenTmp, Become, TypeOK, PollsLeft, Untold, cmds, Unregistered
<1>15. ASSUME NEW d \in Pid, WriteTmp(d) PROVE Typed'
  BY <1>15, InfoOfType DEF WriteTmp, Become, TypeOK, PollsLeft, Untold, cmds, Unregistered
<1>16. ASSUME NEW d \in Pid, RenameTmp(d) PROVE Typed'
  BY <1>16 DEF RenameTmp, Become, TypeOK, PollsLeft, Untold, cmds, Unregistered
<1>17. ASSUME NEW d \in Pid, Serve(d) PROVE Typed'
  BY <1>17 DEF Serve, Become, TypeOK, PollsLeft, Untold, files, cmds, Unregistered
<1>18. ASSUME NEW d \in Pid, Die(d) PROVE Typed'
  BY <1>18 DEF Die, Become, TypeOK, PollsLeft, Untold, cmds, Unregistered
<1>19. CASE UNCHANGED vars
  BY <1>19 DEF vars, files, daemons, cmds, TypeOK, PollsLeft, Untold
<1> QED
  BY <1>1, <1>2, <1>3, <1>4, <1>5, <1>6, <1>7, <1>8, <1>9, <1>10, <1>11, <1>12, <1>13,
     <1>14, <1>15, <1>16, <1>17, <1>18, <1>19 DEF Next, CmdStep, DaemonStep

\* The variables keep their types.
THEOREM TypeCorrect == Spec => []TypeOK
  BY InitTyped, StepTyped, PTL DEF Spec, Typed

-----------------------------------------------------------------------------
(* Commands one after another.                                             *)

\* Where a command has seen to it that no daemon is starting, and where that
\* no daemon is left.
Before == {"inspect", "probe", "kill", "unlink", "spawn", "stop", "stopped"}
Gone   == {"unlink", "spawn", "cleanup", "stopped"}

\* One command and one daemon at most.
Alone ==
  /\ \A c, e \in Cmd : pc[c] # "idle" /\ pc[e] # "idle" => c = e
  /\ \A d, e \in Pid : Alive(d) /\ Alive(e) => d = e

\* What a command's place says of the daemons.
Ordered ==
  \A c \in Cmd, d \in Pid :
    /\ pc[c] \in Before => phase[d] \notin Unregistered
    /\ pc[c] \in Gone => ~Alive(d)
    /\ pc[c] \in {"poll", "health"} /\ Alive(d) => version[d] = expected[c]

\* The registration, from the removal of the last one to that of the next.
Registering ==
  /\ \A c \in Cmd : pc[c] = "spawn" => file = NoFile
  /\ \A d \in Pid :
       /\ phase[d] \in Unregistered => file = NoFile
       /\ phase[d] \in {"write", "rename"} => at[d] = "tmp"
       /\ phase[d] = "rename" => tmp = InfoOf(d)
       /\ phase[d] \in {"start", "serve"} => file = InfoOf(d)

\* What a command has read is what is registered.
Known ==
  \A c \in Cmd :
    /\ pc[c] \in {"probe", "health"} => file \in Info /\ info[c] = file
    /\ pc[c] = "probe" => info[c].version = expected[c]

Quiet == Alone /\ Ordered /\ Registering /\ Known

Inv == Typed /\ (~raced => Quiet)

LEMMA InitQuiet == Init => Quiet
  BY DEF Init, Quiet, Alone, Ordered, Registering, Known, Before, Gone, Alive, Unregistered

\* Each step keeps order, as long as no command begins while another is under
\* way or a daemon is starting.
LEMMA StepQuiet ==
  ASSUME Typed, Quiet, [Next]_vars, ~raced'
  PROVE  Quiet'
<1> USE DEF Typed, Quiet
<1>1. ASSUME NEW c \in Cmd, NEW first \in {"inspect", "stop"}, NEW v \in Version, Begin(c, first, v)
      PROVE  Quiet'
  <2>1. ~Busy
    BY <1>1 DEF Begin
  <2>2. pc' = [pc EXCEPT ![c] = first] /\ expected' = [expected EXCEPT ![c] = v]
        /\ UNCHANGED <<file, tmp, at, phase, port, version, info>>
    BY <1>1 DEF Begin, Goto, files, daemons
  <2>3. (\A e \in Cmd : pc[e] = "idle") /\ (\A d \in Pid : phase[d] \notin Unregistered)
    BY <2>1 DEF Busy
  <2>4. Alone' /\ Ordered'
    BY <2>2, <2>3 DEF TypeOK, Alone, Ordered, Before, Gone, Alive
  <2>5. Registering' /\ Known'
    BY <2>2, <2>3 DEF TypeOK, Registering, Known, InfoOf, Unregistered
  <2> QED BY <2>4, <2>5
<1>2. ASSUME NEW c \in Cmd, Inspect(c) PROVE Quiet'
  BY <1>2
     DEF Inspect, Goto, TypeOK, files, daemons, Alone, Ordered, Registering, Known,
         Before, Gone, Alive, InfoOf
<1>3. ASSUME NEW c \in Cmd, Probe(c) PROVE Quiet'
  BY <1>3
     DEF Probe, Exit, Go, Goto, TypeOK, files, daemons, Alone, Ordered, Registering,
         Known, Before, Gone, Alive, InfoOf
<1>4. ASSUME NEW c \in Cmd, KillStale(c) PROVE Quiet'
  <2>1. pc[c] = "kill" /\ pc' = [pc EXCEPT ![c] = IF file = NoFile THEN "spawn" ELSE "unlink"]
        /\ UNCHANGED <<file, tmp, port, version, expected, info>>
    BY <1>4 DEF KillStale, Goto
  <2>2. \A d \in Pid : Alive(d) => file = InfoOf(d)
    BY <2>1 DEF TypeOK, Ordered, Registering, Before, Alive, Unregistered
  <2>3. \A d \in Pid : ~Alive(d)'
    BY <1>4, <2>2, InfoOfType DEF KillStale, Terminated, TypeOK, Alive
  <2>4. Alone' /\ Ordered' /\ Known'
    BY <2>1, <2>3 DEF TypeOK, Alone, Ordered, Known, Before, Gone, Alive, Unregistered
  <2>5. Registering'
    BY <2>1, <2>3 DEF TypeOK, Alone, Registering, Alive, Unregistered
  <2> QED BY <2>4, <2>5
<1>5. ASSUME NEW c \in Cmd, Unlink(c) PROVE Quiet'
  BY <1>5
     DEF Unlink, Goto, TypeOK, daemons, Alone, Ordered, Registering, Known, Before,
         Gone, Alive, InfoOf, Unregistered
<1>6. ASSUME NEW c \in Cmd, Spawn(c) PROVE Quiet'
  <2>1. pc[c] = "spawn" /\ file = NoFile /\ \A d \in Pid : ~Alive(d)
    BY <1>6 DEF Spawn, Ordered, Registering, Gone
  <2>2. pc' = [pc EXCEPT ![c] = "poll"] /\ UNCHANGED <<file, tmp, at, port, expected, info>>
    BY <1>6 DEF Spawn, Goto, files
  <2>3. CASE UNCHANGED <<phase, version>>
    BY <2>1, <2>2, <2>3
       DEF TypeOK, Alone, Ordered, Registering, Known, Before, Gone, Alive, InfoOf, Unregistered
  <2>4. ASSUME NEW d \in Pid, phase' = [phase EXCEPT ![d] = "bind"],
               version' = [version EXCEPT ![d] = expected[c]]
        PROVE  Quiet'
    <3>1. \A e \in Pid : e # d => ~Alive(e)'
      BY <2>1, <2>4 DEF TypeOK, Alive
    <3>2. Alone' /\ Ordered'
      BY <2>1, <2>2, <2>4, <3>1 DEF TypeOK, Alone, Ordered, Before, Gone, Alive
    <3>3. Registering' /\ Known'
      BY <2>1, <2>2, <2>4, <3>1 DEF TypeOK, Alone, Registering, Known, Alive, Unregistered
    <3> QED BY <3>2, <3>3
  <2> QED BY <1>6, <2>3, <2>4 DEF Spawn
<1>7. ASSUME NEW c \in Cmd, Poll(c) PROVE Quiet'
  BY <1>7
     DEF Poll, Exit, Goto, TypeOK, files, daemons, Alone, Ordered, Registering, Known,
         Before, Gone, Alive, InfoOf
<1>8. ASSUME NEW c \in Cmd, Health(c) PROVE Quiet'
  <2>1. pc[c] = "health" /\ file \in Info /\ info[c] = file
        /\ UNCHANGED <<file, tmp, port, version, expected>>
    BY <1>8 DEF Health, Known
  <2>2. CASE Exit(c, "started") /\ UNCHANGED <<phase, at>>
    BY <2>1, <2>2
       DEF Exit, Goto, TypeOK, Alone, Ordered, Registering, Known, Before, Gone, Alive, InfoOf
  <2>3. CASE Go(c, "cleanup") /\ Terminated(info[c].pid)
    <3>1. pc' = [pc EXCEPT ![c] = "cleanup"] /\ UNCHANGED info
      BY <2>3 DEF Go, Goto
    <3>2. \A d \in Pid : Alive(d) => file = InfoOf(d)
      BY <2>1, SpecialFiles DEF TypeOK, Registering, Alive, Unregistered
    <3>3. \A d \in Pid : ~Alive(d)'
      BY <2>1, <2>3, <3>2, InfoOfType DEF Terminated, TypeOK, Alive
    <3>4. Alone' /\ Ordered' /\ Known'
      BY <2>1, <3>1, <3>3
         DEF TypeOK, Alone, Ordered, Known, Before, Gone, Alive, Unregistered
    <3>5. Registering'
      BY <2>1, <3>1, <3>3 DEF TypeOK, Alone, Registering, Alive, Unregistered
    <3> QED BY <3>4, <3>5
  <2> QED BY <1>8, <2>2, <2>3 DEF Health
<1>9. ASSUME NEW c \in Cmd, Cleanup(c) PROVE Quiet'
  BY <1>9
     DEF Cleanup, Exit, Goto, TypeOK, daemons, Alone, Ordered, Registering, Known,
         Before, Gone, Alive, InfoOf, Unregistered
<1>10. ASSUME NEW c \in Cmd, Stop(c) PROVE Quiet'
  <2>1. pc[c] = "stop" /\ UNCHANGED <<file, tmp, port, version, expected>>
    BY <1>10 DEF Stop
  <2>2. CASE Exit(c, IF file = NoFile THEN "stopped" ELSE "refused") /\ UNCHANGED <<phase, at>>
    BY <2>1, <2>2
       DEF Exit, Goto, TypeOK, Alone, Ordered, Registering, Known, Before, Gone, Alive, InfoOf
  <2>3. CASE file \in Info /\ Go(c, "stopped") /\ Terminated(file.pid)
    <3>1. pc' = [pc EXCEPT ![c] = "stopped"] /\ UNCHANGED info
      BY <2>3 DEF Go, Goto
    <3>2. \A d \in Pid : Alive(d) => file = InfoOf(d)
      BY <2>1 DEF TypeOK, Ordered, Registering, Before, Alive, Unregistered
    <3>3. \A d \in Pid : ~Alive(d)'
      BY <2>3, <3>2, InfoOfType DEF Terminated, TypeOK, Alive
    <3>4. Alone' /\ Ordered' /\ Known'
      BY <2>1, <3>1, <3>3
         DEF TypeOK, Alone, Ordered, Known, Before, Gone, Alive, Unregistered
    <3>5. Registering'
      BY <2>1, <3>1, <3>3 DEF TypeOK, Alone, Registering, Alive, Unregistered
    <3> QED BY <3>4, <3>5
  <2> QED BY <1>10, <2>2, <2>3 DEF Stop
<1>11. ASSUME NEW c \in Cmd, StopUnlink(c) PROVE Quiet'
  BY <1>11
     DEF StopUnlink, Exit, Goto, TypeOK, daemons, Alone, Ordered, Registering, Known,
         Before, Gone, Alive, InfoOf, Unregistered
<1>12. ASSUME NEW c \in Cmd, Interrupt(c) PROVE Quiet'
  BY <1>12
     DEF Interrupt, Exit, Goto, TypeOK, files, daemons, Alone, Ordered, Registering,
         Known, Before, Gone, Alive, InfoOf
<1>13. ASSUME NEW d \in Pid, NEW q \in Port, BindPort(d, q) PROVE Quiet'
  BY <1>13
     DEF BindPort, Become, TypeOK, files, cmds, Alone, Ordered, Registering, Known,
         Before, Gone, Alive, InfoOf, Unregistered
<1>14. ASSUME NEW d \in Pid, OpenTmp(d) PROVE Quiet'
  BY <1>14
     DEF OpenTmp, Become, TypeOK, cmds, Alone, Ordered, Registering, Known, Before,
         Gone, Alive, InfoOf, Unregistered
<1>15. ASSUME NEW d \in Pid, WriteTmp(d) PROVE Quiet'
  BY <1>15
     DEF WriteTmp, Become, TypeOK, cmds, Alone, Ordered, Registering, Known, Before,
         Gone, Alive, InfoOf, Unregistered
<1>16. ASSUME NEW d \in Pid, RenameTmp(d) PROVE Quiet'
  <2>1. phase[d] = "rename" /\ phase' = [phase EXCEPT ![d] = "start"] /\ file' = tmp
        /\ UNCHANGED <<port, version, pc, expected, info>>
    BY <1>16 DEF RenameTmp, Become, cmds
  <2>2. file = NoFile /\ file' = InfoOf(d) /\ \A e \in Pid : e # d => ~Alive(e)
    BY <2>1 DEF Alone, Registering, Alive, Unregistered
  <2>3. Alone' /\ Ordered'
    BY <2>1 DEF TypeOK, Alone, Ordered, Before, Gone, Alive, Unregistered
  <2>4. \A c \in Cmd : pc[c] \notin {"probe", "spawn", "health"}
    BY <2>1, <2>2, SpecialFiles DEF Ordered, Known, Before, Unregistered
  <2>5. Registering' /\ Known'
    BY <2>1, <2>2, <2>4 DEF TypeOK, Registering, Known, Alive, InfoOf, Unregistered
  <2> QED BY <2>3, <2>5
<1>17. ASSUME NEW d \in Pid, Serve(d) PROVE Quiet'
  BY <1>17
     DEF Serve, Become, TypeOK, files, cmds, Alone, Ordered, Registering, Known, Before,
         Gone, Alive, InfoOf, Unregistered
<1>18. ASSUME NEW d \in Pid, Die(d) PROVE Quiet'
  BY <1>18
     DEF Die, Become, TypeOK, cmds, Alone, Ordered, Registering, Known, Before, Gone,
         Alive, InfoOf, Unregistered
<1>19. CASE UNCHANGED vars
  BY <1>19
     DEF vars, files, daemons, cmds, TypeOK, Alone, Ordered, Registering, Known, Before,
         Gone, Alive, InfoOf
<1> QED
  BY <1>1, <1>2, <1>3, <1>4, <1>5, <1>6, <1>7, <1>8, <1>9, <1>10, <1>11, <1>12, <1>13,
     <1>14, <1>15, <1>16, <1>17, <1>18, <1>19 DEF Next, CmdStep, DaemonStep

\* Once commands have overlapped, they have.
LEMMA RacedStays == Typed /\ [Next]_vars /\ raced => raced'
  BY DEF Next, CmdStep, DaemonStep, Begin, Inspect, Probe, KillStale, Unlink, Spawn, Poll,
         Health, Cleanup, Stop, StopUnlink, Interrupt, BindPort, OpenTmp, WriteTmp,
         RenameTmp, Serve, Die, vars, cmds

LEMMA StepInv == Inv /\ [Next]_vars => Inv'
  BY StepTyped, StepQuiet, RacedStays DEF Inv

LEMMA AlwaysInv == Spec => []Inv
<1>1. Init => Inv
  BY InitTyped, InitQuiet DEF Inv
<1> QED
  BY <1>1, StepInv, PTL DEF Spec

-----------------------------------------------------------------------------

\* Every daemon that has registered is the one that daemon.json names, as long
\* as commands neither overlap nor overtake a starting daemon (unix.rs,
\* kill_stale before spawn, write_daemon_json).
THEOREM OneRegistered == Spec => []OnlyRegisteredRun
<1>1. Inv => OnlyRegisteredRun
  BY DEF Inv, Quiet, Registering, OnlyRegisteredRun
<1> QED
  BY <1>1, AlwaysInv, PTL

\* What a command that ends with a success has seen to.  Nobody but the command
\* itself tells its user anything.
LEMMA OnlyOwnResult ==
  ASSUME Typed, [Next]_vars, NEW c \in Cmd, pc[c] # "idle",
         result'[c] \in {"opened", "started", "stopped"}
  PROVE  \/ Probe(c) /\ Exit(c, "opened")
         \/ Health(c) /\ Exit(c, "started")
         \/ Stop(c) /\ Exit(c, "stopped")
         \/ StopUnlink(c)
<1>1. result[c] = "none"
  BY DEF Typed, Untold
<1>2. \E e \in Cmd, how \in Outcome : Exit(e, how) /\ (Probe(e) \/ Poll(e) \/ Health(e) \/ Cleanup(e)
        \/ Stop(e) \/ StopUnlink(e) \/ Interrupt(e))
  BY <1>1 DEF Next, CmdStep, DaemonStep, Begin, Inspect, Probe, KillStale, Unlink, Spawn,
         Poll, Health, Cleanup, Stop, StopUnlink, Interrupt, BindPort, OpenTmp, WriteTmp,
         RenameTmp, Serve, Die, vars, cmds, Go, Typed, TypeOK, Outcome
<1>3. PICK e \in Cmd, how \in Outcome : Exit(e, how) /\ (Probe(e) \/ Poll(e) \/ Health(e) \/ Cleanup(e)
        \/ Stop(e) \/ StopUnlink(e) \/ Interrupt(e))
  BY <1>2
<1>4. e = c /\ result'[c] = how
  BY <1>1, <1>3 DEF Exit, Typed, TypeOK
<1>5. pc'[c] = "idle"
  BY <1>3, <1>4 DEF Exit, Goto, Typed, TypeOK
<1> QED
  BY <1>1, <1>3, <1>4, <1>5
     DEF Probe, Poll, Health, Cleanup, Stop, StopUnlink, Interrupt, Exit, Go, Goto, Typed, TypeOK

\* A successful stop leaves no daemon, not even one that is starting (unix.rs,
\* stop).
THEOREM NoneAfterStop == Spec => StopStops
<1>1. ASSUME Inv, [Next]_vars, NEW c \in Cmd, ~raced, pc[c] # "idle",
             result'[c] = "stopped", NEW d \in Pid
      PROVE  phase'[d] \in {"unborn", "dead"}
  <2>1. Quiet /\ Typed
    BY <1>1 DEF Inv
  <2>2. (Stop(c) /\ Exit(c, "stopped")) \/ StopUnlink(c)
    BY <1>1, <2>1, OnlyOwnResult DEF Exit, Typed, TypeOK
  <2>3. CASE Stop(c) /\ Exit(c, "stopped")
    <3>1. pc[c] = "stop" /\ file = NoFile /\ UNCHANGED phase
      BY <2>1, <2>3 DEF Stop, Exit, Go, Goto, Typed, TypeOK
    <3>2. ~Alive(d)
      BY <2>1, <3>1, SpecialFiles, InfoOfType
         DEF Typed, TypeOK, Quiet, Ordered, Registering, Before, Alive, Unregistered
    <3> QED BY <3>1, <3>2 DEF Alive
  <2>4. CASE StopUnlink(c)
    BY <2>1, <2>4 DEF StopUnlink, daemons, Quiet, Ordered, Gone, Alive
  <2> QED BY <2>2, <2>3, <2>4
<1>2. Inv /\ [Next]_vars => [\A c \in Cmd :
       ~raced /\ pc[c] # "idle" /\ pc'[c] = "idle" /\ result'[c] = "stopped" =>
         \A d \in Pid : phase'[d] \in {"unborn", "dead"}]_vars
  BY <1>1
<1> QED
  BY <1>2, AlwaysInv, PTL DEF Spec, StopStops

\* A successful show opens a daemon that serves, that has its version and that
\* is registered (show.rs, run; unix.rs, inspect and wait_for_daemon_json).
THEOREM ShownServes == Spec => ShowServes
<1>1. ASSUME Inv, [Next]_vars, NEW c \in Cmd, ~raced, pc[c] # "idle",
             result'[c] \in {"opened", "started"}
      PROVE  /\ phase'[info[c].pid] = "serve"
             /\ InfoOf(info[c].pid) = info[c]
             /\ info[c].version = expected[c]
             /\ file' = info[c]
  <2>1. Quiet /\ Typed
    BY <1>1 DEF Inv
  <2>2. (Probe(c) /\ Exit(c, "opened")) \/ (Health(c) /\ Exit(c, "started"))
    BY <1>1, <2>1, OnlyOwnResult DEF StopUnlink, Exit, Typed, TypeOK
  <2>3. PICK d \in Pid :
          /\ phase[d] = "serve"
          /\ \/ pc[c] = "probe" /\ version[d] = expected[c]
             \/ pc[c] = "health" /\ version[d] = info[c].version
    <3>1. ASSUME Probe(c), Exit(c, "opened")
          PROVE  \E d \in Pid : phase[d] = "serve" /\ version[d] = expected[c]
      <4>1. PICK ok \in Healthz(info[c].port, expected[c]) :
              IF ok THEN Exit(c, "opened") ELSE Go(c, "kill")
        BY <3>1 DEF Probe
      <4>2. ~Go(c, "kill")
        BY <2>1, <3>1 DEF Exit, Go, Goto, Typed, TypeOK
      <4>3. ok
        BY <4>1, <4>2
      <4> QED BY <4>1, <4>3 DEF Healthz, Listening
    <3>2. ASSUME Health(c), Exit(c, "started")
          PROVE  \E d \in Pid : phase[d] = "serve" /\ version[d] = info[c].version
      <4>1. PICK ok \in Healthz(info[c].port, info[c].version) :
              \/ ok /\ Exit(c, "started") /\ UNCHANGED <<phase, at>>
              \/ ~ok /\ Go(c, "cleanup") /\ Terminated(info[c].pid)
        BY <3>2 DEF Health
      <4>2. ~Go(c, "cleanup")
        BY <2>1, <3>2 DEF Exit, Go, Goto, Typed, TypeOK
      <4>3. ok
        BY <4>1, <4>2
      <4> QED BY <4>1, <4>3 DEF Healthz, Listening
    <3>3. Probe(c) => pc[c] = "probe"
      BY DEF Probe
    <3>4. Health(c) => pc[c] = "health"
      BY DEF Health
    <3> QED BY <2>2, <3>1, <3>2, <3>3, <3>4
  <2>4. UNCHANGED <<phase, file>>
    BY <2>1, <2>2 DEF Probe, Health, Exit, Go, Goto, daemons, files, Typed, TypeOK
  <2>5. file = InfoOf(d) /\ info[c] = file
    BY <2>1, <2>3 DEF Quiet, Registering, Known
  <2>6. info[c].pid = d /\ info[c].version = version[d]
    BY <2>1, <2>5, InfoOfType DEF Typed
  <2>7. version[d] = expected[c]
    BY <2>1, <2>3 DEF Quiet, Ordered, Alive
  <2> QED BY <2>3, <2>4, <2>5, <2>6, <2>7
<1>2. Inv /\ [Next]_vars => [\A c \in Cmd :
       ~raced /\ pc[c] # "idle" /\ result'[c] \in {"opened", "started"} =>
         /\ phase'[info[c].pid] = "serve"
         /\ InfoOf(info[c].pid) = info[c]
         /\ info[c].version = expected[c]
         /\ file' = info[c]]_vars
  BY <1>1
<1> QED
  BY <1>2, AlwaysInv, PTL DEF Spec, ShowServes
=============================================================================
