------------------------------ MODULE RunLimits ------------------------------
(***************************************************************************)
(* run_with_limits (zuit-core, external.rs): how every adapter of an       *)
(* external tool, and every plugin, runs its subprocess.                   *)
(*                                                                         *)
(* The caller's thread alternates between the clock, try_wait and a        *)
(* blocking read of the child's standard output.  The child may start a    *)
(* helper, which inherits the pipe and outlives it.  A read may fail, by a *)
(* signal for one, and so may try_wait; kill and wait on one's own child   *)
(* do not.  Output is counted in blocks.                                   *)
(***************************************************************************)
EXTENDS Naturals

CONSTANTS
  MaxStdout,  \* max_stdout_bytes
  Timeout,    \* timeout_secs
  ReadBuf,    \* read_buf: 64 KiB
  PipeSize,   \* how much a pipe holds before a write to it blocks
  MaxWritten  \* bound: how much is written

VARIABLES
  now,      \* seconds since the child was spawned, as far as Timeout + 1
  proc,     \* state of the child and of its helper
  open,     \* who has the write end of the pipe open
  pipe,     \* what is in the pipe
  buffer,   \* what the caller has captured
  pc,       \* where the caller is
  outcome,  \* the Outcome it returns
  written,  \* history: what has been written
  cut       \* history: a read failed while the pipe was drained

tool == <<proc, open, pipe, written>>
runVars == <<now, tool, buffer, pc, outcome, cut>>

Writer == {"child", "helper"}

ASSUME Limits ==
  /\ MaxStdout \in Nat /\ Timeout \in Nat /\ MaxWritten \in Nat
  /\ ReadBuf \in Nat \ {0} /\ PipeSize \in Nat \ {0}

-----------------------------------------------------------------------------

RunInit ==
  /\ now = 0
  /\ proc = [w \in Writer |-> "unborn"]
  /\ open = {}
  /\ pipe = 0 /\ buffer = 0 /\ written = 0
  /\ pc = "spawn"
  /\ outcome = "none"
  /\ cut = FALSE

-----------------------------------------------------------------------------
(* The caller.                                                             *)

Return(how) == outcome' = how /\ pc' = "returned"

Spawn ==
  /\ pc = "spawn"
  /\ \/ /\ proc' = [proc EXCEPT !["child"] = "running"]
        /\ open' = {"child"}
        /\ pc' = "clock"
        /\ UNCHANGED outcome
     \/ Return("spawn_failed") /\ UNCHANGED <<proc, open>>
  /\ UNCHANGED <<now, pipe, buffer, written, cut>>

\* Mutant: the child is waited for but not killed.
KillNothing == UNCHANGED <<proc, open>>

\* kill: to no effect on a child that has been waited for.
Kill ==
  /\ proc' = [proc EXCEPT !["child"] = IF @ = "running" THEN "exited" ELSE @]
  /\ open' = open \ {"child"}

CheckTimeout ==
  /\ pc = "clock"
  /\ IF now > Timeout
       THEN Kill /\ outcome' = "timeout" /\ pc' = "wait"
       ELSE pc' = "poll" /\ UNCHANGED <<proc, open, outcome>>
  /\ UNCHANGED <<now, pipe, buffer, written, cut>>

\* Mutant: a child that has exited has no more to say.
TryWaitNoDrain ==
  /\ pc = "poll"
  /\ IF proc["child"] = "exited"
       THEN /\ proc' = [proc EXCEPT !["child"] = "reaped"]
            /\ Return("ok")
       ELSE pc' = "read" /\ UNCHANGED <<proc, outcome>>
  /\ UNCHANGED <<now, open, pipe, buffer, written, cut>>

TryWait ==
  /\ pc = "poll"
  /\ IF proc["child"] = "exited"
       THEN proc' = [proc EXCEPT !["child"] = "reaped"] /\ pc' = "drain"
       ELSE pc' = "read" /\ UNCHANGED proc
  /\ UNCHANGED <<now, open, pipe, buffer, outcome, written, cut>>

\* What one read returns, once there is something in the pipe.
Chunk == IF pipe < ReadBuf THEN pipe ELSE ReadBuf

\* Mutant: output that fills the buffer is already refused.
FitsStrictly(n) == buffer + n < MaxStdout

Fits(n) == buffer + n <= MaxStdout

Capture ==
  /\ pipe > 0
  /\ Fits(Chunk)
  /\ buffer' = buffer + Chunk
  /\ pipe' = pipe - Chunk

Overflow ==
  /\ pipe > 0
  /\ ~Fits(Chunk)
  /\ pipe' = pipe - Chunk
  /\ Kill
  /\ outcome' = "too_large" /\ pc' = "wait"

EndOfFile == pipe = 0 /\ open = {}

\* While the child runs; the read blocks as long as none of the three holds.
Read ==
  /\ pc = "read"
  /\ \/ Capture /\ pc' = "clock" /\ UNCHANGED <<proc, open, outcome>>
     \/ Overflow /\ UNCHANGED buffer
     \/ /\ EndOfFile
        /\ outcome' = "ok" /\ pc' = "wait"
        /\ UNCHANGED <<proc, open, pipe, buffer>>
  /\ UNCHANGED <<now, written, cut>>

\* Once the child is reaped, until the end of the file.
Drain ==
  /\ pc = "drain"
  /\ \/ Capture /\ UNCHANGED <<pc, proc, open, outcome>>
     \/ Overflow /\ UNCHANGED buffer
     \/ EndOfFile /\ Return("ok") /\ UNCHANGED <<proc, open, pipe, buffer>>
  /\ UNCHANGED <<now, written, cut>>

\* The errors of try_wait and of read: as long as the child was not seen to have
\* exited, the caller sleeps and looks at the clock again; while draining, it
\* returns what it has captured so far.
CallFails ==
  /\ \/ /\ pc \in {"poll", "read"}
        /\ pc' = "clock"
        /\ UNCHANGED <<outcome, cut>>
     \/ /\ pc = "drain"
        /\ Return("ok")
        /\ cut' = TRUE
  /\ UNCHANGED <<now, tool, buffer>>

\* Mutant: the status is not collected.
WaitNot ==
  /\ pc = "wait"
  /\ pc' = "returned"
  /\ UNCHANGED <<now, tool, buffer, outcome, cut>>

\* child.wait: blocks while the child runs.
Wait ==
  /\ pc = "wait"
  /\ proc["child"] \in {"exited", "reaped"}
  /\ proc' = [proc EXCEPT !["child"] = "reaped"]
  /\ pc' = "returned"
  /\ UNCHANGED <<now, open, pipe, buffer, outcome, written, cut>>

-----------------------------------------------------------------------------
(* The tool and the clock.                                                 *)

Running(w) == proc[w] = "running"

StartHelper ==
  /\ Running("child") /\ proc["helper"] = "unborn"
  /\ proc' = [proc EXCEPT !["helper"] = "running"]
  /\ open' = IF "child" \in open THEN open \cup {"helper"} ELSE open
  /\ UNCHANGED <<now, pipe, buffer, pc, outcome, written, cut>>

Write(w) ==
  /\ Running(w) /\ w \in open
  /\ pipe < PipeSize
  /\ written < MaxWritten
  /\ pipe' = pipe + 1
  /\ written' = written + 1
  /\ UNCHANGED <<now, proc, open, buffer, pc, outcome, cut>>

\* The tool closes its standard output and goes on.
Close(w) ==
  /\ Running(w) /\ w \in open
  /\ open' = open \ {w}
  /\ UNCHANGED <<now, proc, pipe, buffer, pc, outcome, written, cut>>

Exit(w) ==
  /\ Running(w)
  /\ proc' = [proc EXCEPT ![w] = "exited"]
  /\ open' = open \ {w}
  /\ UNCHANGED <<now, pipe, buffer, pc, outcome, written, cut>>

Tick ==
  /\ pc \notin {"spawn", "returned"}
  /\ now <= Timeout
  /\ now' = now + 1
  /\ UNCHANGED <<tool, buffer, pc, outcome, cut>>

-----------------------------------------------------------------------------

Caller == Spawn \/ CheckTimeout \/ TryWait \/ Read \/ Drain \/ Wait

Tool ==
  /\ pc # "returned"
  /\ StartHelper \/ \E w \in Writer : Write(w) \/ Close(w) \/ Exit(w)

RunNext == Caller \/ CallFails \/ Tool \/ Tick

RunSpec == RunInit /\ [][RunNext]_runVars

\* The caller's thread is scheduled and time passes; nothing is assumed of the
\* tool, and no call has to fail.
FairRunSpec == RunSpec /\ WF_runVars(Caller) /\ WF_runVars(Tick)

-----------------------------------------------------------------------------

RunTypeOK ==
  /\ now \in 0 .. Timeout + 1
  /\ proc \in [Writer -> {"unborn", "running", "exited", "reaped"}]
  /\ open \in SUBSET Writer
  /\ pipe \in 0 .. PipeSize /\ buffer \in 0 .. MaxStdout /\ written \in 0 .. MaxWritten
  /\ pc \in {"spawn", "clock", "poll", "read", "drain", "wait", "returned"}
  /\ outcome \in {"none", "ok", "timeout", "too_large", "spawn_failed"}
  /\ cut \in BOOLEAN

\* What is returned as Ok is what was written, by the child and by its helper, up
\* to what is still in the pipe: nothing in between is lost, or given twice, by
\* reads that failed and were tried again.  And it is all that will ever be
\* written, so that an adapter does not parse a prefix, unless a read failed
\* while the pipe was drained: then the code gives the prefix as Ok.
OkIsWhole ==
  pc = "returned" /\ outcome = "ok" =>
    /\ buffer + pipe = written
    /\ ~cut => pipe = 0 /\ open = {}

\* Output is refused only if there is more of it than the cap allows, and what
\* fits exactly is accepted.
CapExact == outcome = "too_large" => written > MaxStdout

\* Whatever the outcome, the child is dead and no zombie is left.
ChildReaped ==
  pc = "returned" => proc["child"] \in {"unborn", "reaped"}

\* Someone whom the caller waits for neither writes, nor closes, nor exits.
Silent ==
  \/ pc \in {"read", "drain"} /\ pipe = 0 /\ open # {}
  \/ pc = "wait" /\ outcome = "ok" /\ Running("child")

\* Nothing but a silent tool keeps the caller from returning: it never waits
\* for a child that is itself blocked on the full pipe, or for one it has killed.
ReturnsUnlessSilent == <>(pc = "returned") \/ <>[]Silent
=============================================================================
