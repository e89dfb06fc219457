------------------------ MODULE ProvenanceRecorders -------------------------
(***************************************************************************)
(* M5: processes that each run the recording loop of run_experiment over   *)
(* one journal, event by event from the first, for the same operation.  A  *)
(* refused append raises out of the loop; a process may also die between   *)
(* two appends and be started again.  An auditor reopens the journal and   *)
(* validates what it reads.                                                *)
(***************************************************************************)
EXTENDS ProvenanceJournal

CONSTANTS Recorders,
          HistoryOf(_),  \* the history a recorder appends
          MaxCrashes     \* bound on the crashes of one recorder

ASSUME RecordersAssumption == MaxCrashes \in Nat

\* Each records one of the two histories of the experiment, all for one operation.
ASSUME HistoriesAssumption ==
  \E o \in Operations, t \in Intents, e \in Effects :
    \A r \in Recorders : \E a, b \in Attempts, m, w \in Mechanisms :
      HistoryOf(r) \in {DirectSuccess(o, t, a, m, e), Recovered(o, t, a, b, m, w, e)}

VARIABLES
  position,  \* index of the event each recorder appends next
  state,     \* of each recorder: recording, recorded, raised or crashed
  audit,     \* the last audit view validate_history returned, Null before
  crashes,   \* of each recorder so far: its runs are numbered by it
  author     \* history variable: the recorder and run that appended each row

rvars == <<jvars, position, state, audit, crashes, author>>

RInit ==
  /\ Init
  /\ position = [r \in Recorders |-> 1]
  /\ state = [r \in Recorders |-> "recording"]
  /\ audit = Null
  /\ crashes = [r \in Recorders |-> 0]
  /\ author = <<>>

\* journal.append(event) of the loop, when the sequence is free.
Record(r) ==
  /\ state[r] = "recording"
  /\ AppendNew(HistoryOf(r)[position[r]])
  /\ position' = [position EXCEPT ![r] = @ + 1]
  /\ state' = [state EXCEPT ![r] = IF position[r] = Len(HistoryOf(r)) THEN "recorded" ELSE @]
  /\ author' = [n \in DOMAIN rows' |-> IF n \in DOMAIN rows THEN author[n] ELSE <<r, crashes[r]>>]
  /\ UNCHANGED <<audit, crashes>>

\* The same call on a taken sequence: IntegrityError leaves the loop.
Refused(r) ==
  /\ state[r] = "recording"
  /\ AppendTaken(HistoryOf(r)[position[r]])
  /\ state' = [state EXCEPT ![r] = "raised"]
  /\ UNCHANGED <<position, audit, crashes, author>>

Crash(r) ==
  /\ state[r] = "recording"
  /\ crashes[r] < MaxCrashes
  /\ crashes' = [crashes EXCEPT ![r] = @ + 1]
  /\ state' = [state EXCEPT ![r] = "crashed"]
  /\ UNCHANGED <<jvars, position, audit, author>>

\* Mutant: the process goes on where it died.
RestartResuming(r) ==
  /\ state[r] = "crashed"
  /\ state' = [state EXCEPT ![r] = "recording"]
  /\ UNCHANGED <<jvars, position, audit, crashes, author>>

\* The process is started again and runs its loop from the first event.
Restart(r) ==
  /\ state[r] = "crashed"
  /\ state' = [state EXCEPT ![r] = "recording"]
  /\ position' = [position EXCEPT ![r] = 1]
  /\ UNCHANGED <<jvars, audit, crashes, author>>

\* validate_history(reopened.read()), when it does not raise.
Audit ==
  /\ Accepted(Read)
  /\ audit' = AuditView(Read)
  /\ UNCHANGED <<jvars, position, state, crashes, author>>

RNext ==
  \/ \E r \in Recorders : Record(r) \/ Refused(r) \/ Crash(r) \/ Restart(r)
  \/ Audit

RSpec == RInit /\ [][RNext]_rvars

\* The loop of a live process goes on, and an auditor looks in the end.
RFairSpec ==
  /\ RSpec
  /\ \A r \in Recorders : WF_rvars(Record(r) \/ Refused(r))
  /\ WF_rvars(Audit)
-----------------------------------------------------------------------------
\* Whoever is first owns the journal: events of different recorders, or of a run
\* and the same process started again, never mix, and none is left out.
OneRunOnly ==
  /\ DOMAIN rows = 1..Cardinality(DOMAIN rows)
  /\ \A n \in DOMAIN rows : /\ author[n] = author[1]
                            /\ rows[n] = HistoryOf(author[1][1])[n]

\* An audit is only ever of one recorder's whole history, whose loop ran to its
\* end; the journal still holds it, and its final summary is everybody's.
AuditedWholeHistory ==
  audit # Null =>
    /\ \E r \in Recorders : /\ state[r] = "recorded" /\ author[1] = <<r, crashes[r]>>
                            /\ Read = HistoryOf(r)
    /\ audit = AuditView(Read)
    /\ \A r \in Recorders : FinalSummary(Read) = FinalSummary(HistoryOf(r))

\* The audit tells which history it was, where the final summary cannot: it shows a
\* decision iff an ambiguous attempt was recorded.
AuditedWasRecorded ==
  /\ AuditedWholeHistory
  /\ audit # Null =>
       /\ \A r \in Recorders : audit = AuditView(HistoryOf(r)) <=> Read = HistoryOf(r)
       /\ audit.decisions = <<>> <=> \A i \in DOMAIN Read : Read[i].completion # "ambiguous"

\* Without a crash the recorders' contention for the journal ends with a
\* complete, accepted history, whoever wins.
AuditedUnlessCrashed == <>(audit # Null \/ \E r \in Recorders : crashes[r] > 0)
=============================================================================
