-------------------------------- MODULE Daemon --------------------------------
(***************************************************************************)
(* The dashboard daemon: `zuit show` and `zuit stop` (zuit-cli, show.rs    *)
(* and stop.rs), and zuit-show's daemon/unix.rs.                           *)
(*                                                                         *)
(* The daemon registers itself in ~/.zuit/daemon.json; commands learn of   *)
(* it from that file alone, and nothing locks it.  `show` opens the daemon *)
(* that is registered if it answers, and otherwise kills it and forks a    *)
(* new one, which picks a port, releases it, registers and only then binds *)
(* it again to serve.                                                      *)
(*                                                                         *)
(* A signalled daemon dies at once, so that `stop` never needs its SIGKILL,*)
(* and pids are not recycled: comm_matches says whether a pid is alive.    *)
(***************************************************************************)
EXTENDS Naturals

CONSTANTS
  Cmd,       \* processes that run `zuit show` or `zuit stop`
  Pid,       \* pids of daemons, each forked at most once
  Port,      \* ports the system can hand out
  Version,   \* versions of zuit that are, one after another, installed
  Polls,     \* how often `show` looks for daemon.json: 40 times in 2 s
  NoFile,    \* no such file
  Torn,      \* a file that is not a whole document
  NoInfo,    \* nothing read yet
  MaxBegins  \* bound: how many commands are run

VARIABLES
  file, tmp,         \* daemon.json and daemon.json.tmp
  phase, port, version,  \* per daemon: where it is, its port, its zuit's version
  at,                \* per daemon: the name now borne by the file it opened as
                     \* daemon.json.tmp
  pc, expected,      \* per command: where it is, its own version
  info,              \* per command: the registration it has read
  polls,             \* per command: how often it may still look
  result,            \* per command: what it told the user
  raced,             \* history: a command has been run while another one, or a
                     \* daemon that had not registered yet, was running
  begins             \* counter for the bound

files   == <<file, tmp, at>>
daemons == <<phase, port, version>>
cmds    == <<pc, expected, info, polls, result>>
vars    == <<files, daemons, cmds, raced, begins>>

Info == [pid : Pid, port : Port, version : Version]

ASSUME DaemonConstants ==
  /\ Polls \in Nat \ {0} /\ MaxBegins \in Nat
  /\ NoFile # Torn /\ {NoFile, Torn, NoInfo} \cap Info = {}

InfoOf(d) == [pid |-> d, port |-> port[d], version |-> version[d]]

Unregistered == {"bind", "open", "write", "rename"}

Alive(d) == phase[d] \notin {"unborn", "dead"}

Listening(q) == {d \in Pid : phase[d] = "serve" /\ port[d] = q}

-----------------------------------------------------------------------------

Init ==
  /\ file = NoFile /\ tmp = NoFile
  /\ phase = [d \in Pid |-> "unborn"]
  /\ port \in {[d \in Pid |-> q] : q \in Port}
  /\ version \in {[d \in Pid |-> v] : v \in Version}
  /\ at = [d \in Pid |-> "closed"]
  /\ pc = [c \in Cmd |-> "idle"]
  /\ expected \in {[c \in Cmd |-> v] : v \in Version}
  /\ info = [c \in Cmd |-> NoInfo]
  /\ polls = [c \in Cmd |-> 0]
  /\ result = [c \in Cmd |-> "none"]
  /\ raced = FALSE
  /\ begins = 0

-----------------------------------------------------------------------------
(* The commands.                                                           *)

Goto(c, there) == pc' = [pc EXCEPT ![c] = there]

\* The command goes on, having read a registration or not.
Go(c, there) == Goto(c, there) /\ UNCHANGED <<info, polls, result>>

\* The command tells the user and exits.
Exit(c, how) ==
  /\ Goto(c, "idle")
  /\ info' = [info EXCEPT ![c] = NoInfo]
  /\ polls' = [polls EXCEPT ![c] = 0]
  /\ result' = [result EXCEPT ![c] = how]

\* SIGTERM: the daemon is gone, whatever it was doing.
Terminated(d) ==
  /\ phase' = [phase EXCEPT ![d] = IF @ = "unborn" THEN @ ELSE "dead"]
  /\ at' = [at EXCEPT ![d] = "closed"]

Busy == \/ \E c \in Cmd : pc[c] # "idle"
        \/ \E d \in Pid : phase[d] \in Unregistered

\* The user runs `zuit show` (inspect) or `zuit stop`, of some version.
Begin(c, first, v) ==
  /\ pc[c] = "idle"
  /\ begins < MaxBegins
  /\ begins' = begins + 1
  /\ Goto(c, first)
  /\ expected' = [expected EXCEPT ![c] = v]
  /\ result' = [result EXCEPT ![c] = "none"]
  /\ raced' = (raced \/ Busy)
  /\ UNCHANGED <<files, daemons, info, polls>>

\* inspect: a registration of a live pid and of this version is worth a probe;
\* NotRunning and Stale go the same way.
Inspect(c) ==
  /\ pc[c] = "inspect"
  /\ IF file \in Info /\ Alive(file.pid) /\ file.version = expected[c]
       THEN Goto(c, "probe") /\ info' = [info EXCEPT ![c] = file]
       ELSE Goto(c, "kill") /\ UNCHANGED info
  /\ UNCHANGED <<files, daemons, expected, polls, result, raced, begins>>

\* What probe_healthz can return: the answer of whoever listens on the port,
\* or false when it does not come within a second (the daemon has one worker).
Healthz(q, v) ==
  {FALSE} \cup {version[d] = v : d \in Listening(q)}

Probe(c) ==
  /\ pc[c] = "probe"
  /\ \E ok \in Healthz(info[c].port, expected[c]) :
       IF ok THEN Exit(c, "opened") ELSE Go(c, "kill")
  /\ UNCHANGED <<files, daemons, expected, raced, begins>>

\* Mutant: the file removed, the daemon spared.
KillStaleSpares(c) ==
  /\ pc[c] = "kill"
  /\ Goto(c, IF file = NoFile THEN "spawn" ELSE "unlink")
  /\ UNCHANGED <<file, tmp, daemons, at, expected, info, polls, result, raced,
                 begins>>

\* kill_stale reads the registration anew, signals whom it names ...
KillStale(c) ==
  /\ pc[c] = "kill"
  /\ Goto(c, IF file = NoFile THEN "spawn" ELSE "unlink")
  /\ IF file \in Info THEN Terminated(file.pid) ELSE UNCHANGED <<phase, at>>
  /\ UNCHANGED <<file, tmp, port, version, expected, info, polls, result,
                 raced, begins>>

\* Mutant: the file stays.
UnlinkLeaves(c) ==
  /\ pc[c] = "unlink"
  /\ Goto(c, "spawn")
  /\ UNCHANGED <<files, daemons, expected, info, polls, result, raced, begins>>

\* ... and removes the file, whoever it names by now.
Unlink(c) ==
  /\ pc[c] = "unlink"
  /\ Goto(c, "spawn")
  /\ file' = NoFile
  /\ UNCHANGED <<tmp, at, daemons, expected, info, polls, result, raced,
                 begins>>

\* The double fork; the second one failing, nobody hears of it.
Spawn(c) ==
  /\ pc[c] = "spawn"
  /\ Goto(c, "poll")
  /\ polls' = [polls EXCEPT ![c] = Polls]
  /\ \/ \E d \in Pid :
          /\ phase[d] = "unborn"
          /\ phase' = [phase EXCEPT ![d] = "bind"]
          /\ version' = [version EXCEPT ![d] = expected[c]]
     \/ UNCHANGED <<phase, version>>
  /\ UNCHANGED <<files, port, expected, info, result, raced, begins>>

\* wait_for_daemon_json: whoever has registered will do.
Poll(c) ==
  /\ pc[c] = "poll"
  /\ \/ /\ file \in Info
        /\ Goto(c, "health")
        /\ info' = [info EXCEPT ![c] = file]
        /\ polls' = [polls EXCEPT ![c] = @ - 1]
        /\ UNCHANGED result
     \/ /\ file \notin Info /\ polls[c] > 1
        /\ polls' = [polls EXCEPT ![c] = @ - 1]
        /\ UNCHANGED <<pc, info, result>>
     \/ /\ file \notin Info /\ polls[c] = 1
        /\ Exit(c, "failed")
  /\ UNCHANGED <<files, daemons, expected, raced, begins>>

\* One probe; a daemon that does not answer it is signalled ...
Health(c) ==
  /\ pc[c] = "health"
  /\ \E ok \in Healthz(info[c].port, info[c].version) :
       \/ ok /\ Exit(c, "started") /\ UNCHANGED <<phase, at>>
       \/ ~ok /\ Go(c, "cleanup") /\ Terminated(info[c].pid)
  /\ UNCHANGED <<file, tmp, port, version, expected, raced, begins>>

\* ... and the file removed.
Cleanup(c) ==
  /\ pc[c] = "cleanup"
  /\ Exit(c, "failed")
  /\ file' = NoFile
  /\ UNCHANGED <<tmp, at, daemons, expected, raced, begins>>

\* Mutant: the file removed, the daemon spared.
StopSpares(c) ==
  /\ pc[c] = "stop"
  /\ IF file \in Info /\ Alive(file.pid)
       THEN Go(c, "stopped")
       ELSE Exit(c, IF file = NoFile THEN "stopped" ELSE "refused")
  /\ UNCHANGED <<files, daemons, expected, raced, begins>>

\* stop: nothing to do without a file; no signal for a pid that is not a zuit
\* or for a file that does not parse.
Stop(c) ==
  /\ pc[c] = "stop"
  /\ IF file \in Info /\ Alive(file.pid)
       THEN Go(c, "stopped") /\ Terminated(file.pid)
       ELSE /\ Exit(c, IF file = NoFile THEN "stopped" ELSE "refused")
            /\ UNCHANGED <<phase, at>>
  /\ UNCHANGED <<file, tmp, port, version, expected, raced, begins>>

StopUnlink(c) ==
  /\ pc[c] = "stopped"
  /\ Exit(c, "stopped")
  /\ file' = NoFile
  /\ UNCHANGED <<tmp, at, daemons, expected, raced, begins>>

\* Ctrl-C, or the first fork fails.
Interrupt(c) ==
  /\ pc[c] # "idle"
  /\ Exit(c, "interrupted")
  /\ UNCHANGED <<files, daemons, expected, raced, begins>>

-----------------------------------------------------------------------------
(* The daemon (grandchild_main_port, write_daemon_json, server start).     *)

Become(d, there) == phase' = [phase EXCEPT ![d] = there]

\* Bind port 0 and release what the system chose.
BindPort(d, q) ==
  /\ phase[d] = "bind"
  /\ Listening(q) = {}
  /\ Become(d, "open")
  /\ port' = [port EXCEPT ![d] = q]
  /\ UNCHANGED <<files, version, cmds, raced, begins>>

OpenTmp(d) ==
  /\ phase[d] = "open"
  /\ Become(d, "write")
  /\ tmp' = Torn
  /\ at' = [at EXCEPT ![d] = "tmp"]
  /\ UNCHANGED <<file, port, version, cmds, raced, begins>>

WriteTmp(d) ==
  /\ phase[d] = "write"
  /\ Become(d, "rename")
  /\ tmp' = IF at[d] = "tmp" THEN InfoOf(d) ELSE tmp
  /\ file' = IF at[d] = "file" THEN InfoOf(d) ELSE file
  /\ UNCHANGED <<at, port, version, cmds, raced, begins>>

\* Others who had opened the temporary name now write to daemon.json, those
\* who had been left with daemon.json to no name at all.
RenameTmp(d) ==
  /\ phase[d] = "rename"
  /\ tmp # NoFile
  /\ Become(d, "start")
  /\ file' = tmp
  /\ tmp' = NoFile
  /\ at' = [e \in Pid |-> IF e # d /\ at[e] = "tmp" THEN "file" ELSE "closed"]
  /\ UNCHANGED <<port, version, cmds, raced, begins>>

\* Bind the port again; if it is taken, Die.
Serve(d) ==
  /\ phase[d] = "start"
  /\ Listening(port[d]) = {}
  /\ Become(d, "serve")
  /\ UNCHANGED <<files, port, version, cmds, raced, begins>>

\* An error, or a crash at any moment; the registration stays.
Die(d) ==
  /\ Alive(d)
  /\ Become(d, "dead")
  /\ at' = [at EXCEPT ![d] = "closed"]
  /\ UNCHANGED <<file, tmp, port, version, cmds, raced, begins>>

-----------------------------------------------------------------------------

CmdStep(c) ==
  \/ \E first \in {"inspect", "stop"}, v \in Version : Begin(c, first, v)
  \/ Inspect(c) \/ Probe(c) \/ KillStale(c) \/ Unlink(c)
  \/ Spawn(c) \/ Poll(c) \/ Health(c) \/ Cleanup(c)
  \/ Stop(c) \/ StopUnlink(c) \/ Interrupt(c)

DaemonStep(d) ==
  \/ \E q \in Port : BindPort(d, q)
  \/ OpenTmp(d) \/ WriteTmp(d) \/ RenameTmp(d) \/ Serve(d) \/ Die(d)

Next == (\E c \in Cmd : CmdStep(c)) \/ (\E d \in Pid : DaemonStep(d))

Spec == Init /\ [][Next]_vars

-----------------------------------------------------------------------------

TypeOK ==
  /\ file \in Info \cup {NoFile, Torn} /\ tmp \in Info \cup {NoFile, Torn}
  /\ phase \in [Pid -> Unregistered \cup {"unborn", "start", "serve", "dead"}]
  /\ port \in [Pid -> Port] /\ version \in [Pid -> Version]
  /\ at \in [Pid -> {"closed", "tmp", "file"}]
  /\ pc \in [Cmd -> {"idle", "inspect", "probe", "kill", "unlink", "spawn",
                     "poll", "health", "cleanup", "stop", "stopped"}]
  /\ expected \in [Cmd -> Version]
  /\ info \in [Cmd -> Info \cup {NoInfo}]
  /\ polls \in [Cmd -> 0 .. Polls]
  /\ result \in [Cmd -> {"none", "opened", "started", "failed", "stopped",
                         "refused", "interrupted"}]
  /\ raced \in BOOLEAN
  /\ begins \in 0 .. MaxBegins

\* As long as commands neither overlap nor overtake a daemon that has yet to
\* register, every daemon that has registered can be found: daemon.json names
\* it, and so there is only one.  Daemons may crash, probes time out, commands
\* be interrupted and zuit be upgraded at any time.
OnlyRegisteredRun ==
  ~raced => \A d \in Pid : phase[d] \in {"start", "serve"} => file = InfoOf(d)

\* Under the same condition, when `zuit stop` succeeds no daemon is left, not
\* even one that is starting.
StopStops ==
  [][\A c \in Cmd :
       ~raced /\ pc[c] # "idle" /\ pc'[c] = "idle" /\ result'[c] = "stopped" =>
         \A d \in Pid : phase'[d] \in {"unborn", "dead"}]_vars

\* Under the same condition, when `zuit show` succeeds the daemon whose address
\* it opens serves on that port, has the version of the command and is
\* registered.
ShowServes ==
  [][\A c \in Cmd :
       ~raced /\ pc[c] # "idle" /\ result'[c] \in {"opened", "started"} =>
         /\ phase'[info[c].pid] = "serve"
         /\ InfoOf(info[c].pid) = info[c]
         /\ info[c].version = expected[c]
         /\ file' = info[c]]_vars
=============================================================================
