----------------------------- MODULE KillSwitch -----------------------------
(***************************************************************************)
(* The durable stop (persistent_kill_switch.py): a file that any process   *)
(* may read, activate or reset, with no lock.  write_text truncates the    *)
(* file before it writes it, so a reader or a crash may find it empty; an  *)
(* unreadable file counts as active, a missing one as inactive.            *)
(***************************************************************************)
CONSTANT Keepers \* the processes and threads that write the file

VARIABLES
  switchFile, \* "missing", "torn", or the state it holds
  keeping,    \* per keeper: the call under way, and whether it has truncated the file
  stopped     \* history: an activation returned and no confirmed reset ran then or since

killVars == <<switchFile, keeping, stopped>>

Idle      == [call |-> "none", truncated |-> FALSE]
Contents  == [activate |-> "active", reset |-> "inactive"]
SwitchTypeOK ==
    /\ switchFile \in {"missing", "torn", "active", "inactive"}
    /\ keeping \in [Keepers -> [call : {"none", "activate", "reset"}, truncated : BOOLEAN]]
    /\ \A k \in Keepers : keeping[k].truncated => keeping[k].call # "none"
    /\ stopped \in BOOLEAN

\* _read_state: only a missing file and one that says so are inactive.
IsActive(file) == file \in {"active", "torn"}

Resetting == \E k \in Keepers : keeping[k].call = "reset"

-----------------------------------------------------------------------------
KillInit ==
    /\ switchFile = "missing"
    /\ keeping = [k \in Keepers |-> Idle]
    /\ stopped = FALSE

BeginActivate(k) ==
    /\ keeping[k] = Idle
    /\ keeping' = [keeping EXCEPT ![k] = [call |-> "activate", truncated |-> FALSE]]
    /\ UNCHANGED <<switchFile, stopped>>

\* A reset without the typed confirmation only reads.  What a confirmed one reads
\* of the current state goes into the text it writes, not into whether it writes.
BeginReset(k) ==
    /\ keeping[k] = Idle
    /\ keeping' = [keeping EXCEPT ![k] = [call |-> "reset", truncated |-> FALSE]]
    /\ stopped' = FALSE
    /\ UNCHANGED switchFile

Truncate(k) ==
    /\ keeping[k].call # "none" /\ ~keeping[k].truncated
    /\ switchFile' = "torn"
    /\ keeping' = [keeping EXCEPT ![k].truncated = TRUE]
    /\ UNCHANGED stopped

\* The text arrives and the call returns.
WriteState(k) ==
    /\ keeping[k].truncated
    /\ switchFile' = Contents[keeping[k].call]
    /\ keeping' = [keeping EXCEPT ![k] = Idle]
    /\ stopped' = IF keeping[k].call = "activate" THEN ~Resetting ELSE stopped

\* Mutant: on the way out, a file that was not finished is removed.
Die_CleansUp(k) ==
    /\ keeping' = [keeping EXCEPT ![k] = Idle]
    /\ switchFile' = IF keeping[k].truncated THEN "missing" ELSE switchFile
    /\ UNCHANGED stopped

\* A process dies where it is; the file keeps what it has.
Die(k) ==
    /\ keeping' = [keeping EXCEPT ![k] = Idle]
    /\ UNCHANGED <<switchFile, stopped>>

KillNext == \E k \in Keepers : \/ BeginActivate(k) \/ BeginReset(k) \/ Truncate(k)
                               \/ WriteState(k) \/ Die(k)

KillSpec == KillInit /\ [][KillNext]_killVars

-----------------------------------------------------------------------------
\* An activation that returned holds until a confirmed reset is asked for, through
\* crashes, other activations in the middle of their write, and restarts.
StopHolds == stopped => IsActive(switchFile)

\* Nothing but the end of a confirmed reset's write turns the switch off.
ResumedByReset ==
    [][IsActive(switchFile) /\ ~IsActive(switchFile')
          => \E k \in Keepers : keeping[k] = [call |-> "reset", truncated |-> TRUE]
                                /\ keeping'[k] = Idle]_killVars

\* What makes StopHolds inductive: no reset is under way while the stop holds.
KillInvariant == SwitchTypeOK /\ StopHolds /\ (stopped => ~Resetting)

\* The switch as its runbook wants it: what was stopped stays stopped, whoever writes and
\* dies, until a confirmed reset is written to its end.
KillSound == []KillInvariant /\ ResumedByReset
=============================================================================
