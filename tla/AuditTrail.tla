----------------------------- MODULE AuditTrail -----------------------------
(***************************************************************************)
(* Two records of what happened.  The hash chain of runtime/governance.py  *)
(* names in every entry the hash of the one before, and verify_range looks *)
(* for entries that were changed, removed or moved.  The log of            *)
(* durable_audit_log.py appends one line per event to a file that a failed *)
(* or interrupted write leaves without its newline.                        *)
(***************************************************************************)
EXTENDS Integers, FiniteSets, Sequences, SequencesExt, FiniteSetsExt

CONSTANTS GovernanceEvents, \* the events appended to the chain
          MaxChain,         \* bound on the entries of the chain
          MaxWrites         \* bound on the writes to the log

VARIABLES
  chain,     \* the entries: [event, previous, index, hash]
  altered,   \* what was done to the stored chain: "none", "tail" or "inside"
  logLines,  \* the log file: per line the pieces of text written to it
  logOpen,   \* the last line has no newline
  acked,     \* the writes that returned to their caller
  failed     \* the number of writes that raised or died

chainVars == <<chain, altered>>
logVars   == <<logLines, logOpen, acked, failed>>

-----------------------------------------------------------------------------
Genesis == <<>>

\* SHA-256 over all three: taken to be injective.
Hash(event, previous, index) == <<event, previous, index>>

\* verify_range counts from 0; position i of the list is entry i - 1.
HashBefore(c, first) == IF first = 0 THEN Genesis
                        ELSE IF first <= Len(c) THEN c[first].hash ELSE Genesis

\* Mutant: the link to the entry before is not compared.
Failures_NoLink(c, first, last) ==
    {<<"index", i>> : i \in {j \in first .. Min({last, Len(c)}) - 1 : c[j + 1].index # j}}
    \cup {<<"hash", i>> : i \in {j \in first .. Min({last, Len(c)}) - 1 :
             c[j + 1].hash # Hash(c[j + 1].event, c[j + 1].previous, c[j + 1].index)}}
    \cup {<<"beyond", last>> : x \in {y \in {1} : last > Len(c)}}

\* The failures verify_range(first, last) reports.
Failures(c, first, last) ==
    LET seen == first .. Min({last, Len(c)}) - 1
    IN  {<<"index", i>> : i \in {j \in seen : c[j + 1].index # j}}
        \cup {<<"previous", i>> : i \in {j \in seen :
                 c[j + 1].previous # IF j = first THEN HashBefore(c, first) ELSE c[j].hash}}
        \cup {<<"hash", i>> : i \in {j \in seen :
                 c[j + 1].hash # Hash(c[j + 1].event, c[j + 1].previous, c[j + 1].index)}}
        \cup {<<"beyond", last>> : x \in {y \in {1} : last > Len(c)}}

FullFailures(c) == Failures(c, 0, Len(c))

Linked(c, e) ==
    LET previous == IF c = <<>> THEN Genesis ELSE Last(c).hash
    IN  [event |-> e, previous |-> previous, index |-> Len(c),
         hash |-> Hash(e, previous, Len(c))]

AppendEvent(e) ==
    /\ Len(chain) < MaxChain
    /\ chain' = Append(chain, Linked(chain, e))
    /\ UNCHANGED <<altered, logVars>>

\* The stored list is changed behind the class's back, once: an entry's content is
\* replaced, its hash recomputed or not, two neighbours change places, or an entry is
\* taken out.  What is done to the last entry alone, hash and all, leaves a chain
\* like any other.
AlterContent == \E i \in 1 .. Len(chain) : \E e \in GovernanceEvents \ {chain[i].event} :
    /\ chain' = [chain EXCEPT ![i].event = e]
    /\ altered' = "inside"

RewriteEntry == \E i \in 1 .. Len(chain) : \E e \in GovernanceEvents \ {chain[i].event} :
    /\ chain' = [chain EXCEPT ![i].event = e,
                              ![i].hash = Hash(e, chain[i].previous, chain[i].index)]
    /\ altered' = IF i = Len(chain) THEN "tail" ELSE "inside"

SwapEntries == \E i \in 1 .. Len(chain) - 1 :
    /\ chain' = [chain EXCEPT ![i] = chain[i + 1], ![i + 1] = chain[i]]
    /\ altered' = "inside"

RemoveEntry == \E i \in 1 .. Len(chain) :
    /\ chain' = RemoveAt(chain, i)
    /\ altered' = IF i = Len(chain) THEN "tail" ELSE "inside"

AlterChain ==
    /\ altered = "none"
    /\ AlterContent \/ RewriteEntry \/ SwapEntries \/ RemoveEntry
    /\ UNCHANGED logVars

-----------------------------------------------------------------------------
\* A write appends text and newline; torn text is the piece 0.
NextWrite == Cardinality(acked) + failed + 1

Put(lines, open, piece) ==
    IF open THEN [lines EXCEPT ![Len(lines)] = Append(@, piece)] ELSE Append(lines, <<piece>>)

WriteEvent ==
    /\ NextWrite <= MaxWrites
    /\ logLines' = Put(logLines, logOpen, NextWrite)
    /\ logOpen' = FALSE
    /\ acked' = acked \cup {NextWrite}
    /\ UNCHANGED <<chainVars, failed>>

\* The disk is full or the process dies: nothing, a part, or all of the text but
\* the newline is in the file.
WriteFails ==
    /\ NextWrite <= MaxWrites
    /\ failed' = failed + 1
    /\ \/ UNCHANGED <<logLines, logOpen>>
       \/ \E piece \in {NextWrite, 0} : /\ logLines' = Put(logLines, logOpen, piece)
                                        /\ logOpen' = TRUE
    /\ UNCHANGED <<chainVars, acked>>

\* A line is read back when it is the text of one event.
Readable(line) == Len(line) = 1 /\ line[1] # 0

\* export_events: per line the event, or 0 for AUDIT_LINE_UNREADABLE.
Exported == [i \in 1 .. Len(logLines) |-> IF Readable(logLines[i]) THEN logLines[i][1] ELSE 0]

AuditInit == /\ chain = <<>> /\ altered = "none"
             /\ logLines = <<>> /\ logOpen = FALSE /\ acked = {} /\ failed = 0

ChainNext == (\E e \in GovernanceEvents : AppendEvent(e)) \/ AlterChain
LogNext   == WriteEvent \/ WriteFails

AuditSpec == AuditInit /\ [][ChainNext \/ LogNext]_<<chainVars, logVars>>

-----------------------------------------------------------------------------
\* The chain verifies exactly when nothing but its tail was taken away, also after
\* later events were appended to the altered chain.
AlterationsShow == (FullFailures(chain) = {}) <=> (altered # "inside")

\* Verifying the chain in two parts finds what verifying it at once finds, wherever
\* the cut is.
RangesCompose ==
    \A k \in 0 .. Len(chain) :
        Failures(chain, 0, k) \cup Failures(chain, k, Len(chain)) = FullFailures(chain)

\* Every failed write costs at most one event whose caller was told it is recorded,
\* and what is read back is in the order of the writes.
TornCostsOne ==
    LET read == {Exported[i] : i \in DOMAIN Exported}
    IN  /\ Cardinality(acked \ read) <= failed
        /\ \A i, j \in DOMAIN Exported :
              i < j /\ Exported[i] # 0 /\ Exported[j] # 0 => Exported[i] < Exported[j]
        /\ \A n \in acked \ read : n - 1 \notin acked

\* The audit chain shows every alteration but a lost tail, however it is verified; the log
\* loses at most the event behind a failed write.
AuditSound == AlterationsShow /\ RangesCompose /\ TornCostsOne
=============================================================================
