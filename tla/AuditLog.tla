------------------------------ MODULE AuditLog ------------------------------
(***************************************************************************)
(* The event log of firmware/shared/audit_log.c: a ring of entries, each   *)
(* with an HMAC over its content and the HMAC of the entry before it.      *)
(*                                                                         *)
(* The content of an entry is its number, counted from the first event     *)
(* ever.  A chain HMAC is the sequence of the events it covers: two of     *)
(* them are equal only if computed over the same contents, and none is the *)
(* all-zero one, << >>.  The log is written to storage after every entry,  *)
(* but audit_log_persist() does not look at the result of save(): what a   *)
(* restart loads may be older than what was in RAM.  load() returns what   *)
(* the last successful save() was given.                                   *)
(***************************************************************************)
EXTENDS Integers, Sequences

CONSTANTS
  LogCapacity,  \* AUDIT_LOG_MAX_ENTRIES
  IndexMod,     \* 2^8, the range of g_audit_write_index
  MaxEvents     \* bound: events logged, lost ones included

ASSUME AuditAssumption ==
  /\ LogCapacity \in Nat \ {0} /\ MaxEvents \in Nat
  /\ IndexMod \in Nat /\ IndexMod > LogCapacity

VARIABLES
  audit,   \* g_audit_log and the variables beside it, as one record
  saved,   \* what audit_log_init() would load: the log of the last
           \* successful save(), without the key
  events   \* history: the number of events logged so far

auditVars == << audit, saved, events >>

NoEntry == [event |-> 0, hmac |-> << >>]
LogSlots == 0 .. LogCapacity - 1

(* The last two fields are history: the events recorded, and whether the   *)
(* key was set for each of them.                                           *)
AuditRecord ==
  [entries : [LogSlots -> [event : 0 .. MaxEvents, hmac : Seq(1 .. MaxEvents)]],
   index : 0 .. IndexMod - 1, failures : 0 .. MaxEvents, keyed : BOOLEAN,
   recorded : Seq(1 .. MaxEvents), chained : BOOLEAN]

AuditTypeOK ==
  audit \in AuditRecord /\ saved \in AuditRecord /\ events \in 0 .. MaxEvents

AuditInit ==
  /\ audit = [entries |-> [i \in LogSlots |-> NoEntry], index |-> 0, failures |-> 0,
              keyed |-> FALSE, recorded |-> << >>, chained |-> TRUE]
  /\ saved = audit
  /\ events = 0

(* Mutant of PreviousHmac: it is taken from the slot about to be written. *)
PreviousHmacSameSlot(a) == a.entries[a.index % LogCapacity].hmac

(* The HMAC an entry written now is chained to. *)
PreviousHmac(a) ==
  IF a.index > 0 THEN a.entries[(a.index - 1) % LogCapacity].hmac ELSE << >>

(* audit_log_add(), up to the save: a after the event n. *)
Logged(a, n, failure) ==
  LET hmac == IF a.keyed THEN Append(PreviousHmac(a), n) ELSE << >>
  IN [a EXCEPT !.entries[a.index % LogCapacity] = [event |-> n, hmac |-> hmac],
               !.index = (@ + 1) % IndexMod,
               !.failures = IF failure THEN @ + 1 ELSE @,
               !.recorded = Append(@, n),
               !.chained = @ /\ a.keyed]

(* Mutant of Stored: the save runs before the index is advanced. *)
StoredEarly(a) == [a EXCEPT !.keyed = FALSE, !.index = (@ - 1) % IndexMod]

(* What storage holds of a log.  save() is also told how many entries are  *)
(* in use; the slots beyond are blank until the index wraps.               *)
Stored(a) == [a EXCEPT !.keyed = FALSE]

(* Room for k more events within the bound. *)
CanLog(k) == events + k <= MaxEvents

(* audit_log_add(); save() succeeds or not, and nobody looks. *)
LogOne(failure) ==
  /\ CanLog(1)
  /\ audit' = Logged(audit, events + 1, failure)
  /\ saved' \in {saved, Stored(audit')}
  /\ events' = events + 1

LogEvent == LogOne(FALSE)
LogFailure == LogOne(TRUE)

(* Two calls of audit_log_add(), each with its save(). *)
LogTwice ==
  LET first == Logged(audit, events + 1, FALSE) IN
  /\ CanLog(2)
  /\ audit' = Logged(first, events + 2, FALSE)
  /\ saved' \in {saved, Stored(first), Stored(audit')}
  /\ events' = events + 2

(* audit_log_set_chain_key(), always with the same key. *)
SetChainKey == audit' = [audit EXCEPT !.keyed = TRUE] /\ UNCHANGED << saved, events >>

(* audit_log_init() after a restart: the log comes from storage. *)
AuditRestart == audit' = saved /\ UNCHANGED << saved, events >>

(* audit_log_get_count() *)
Count == IF audit.index < LogCapacity THEN audit.index ELSE LogCapacity

(* The i-th entry of audit_log_get_entries(), the oldest first. *)
Entry(i) ==
  audit.entries[((IF audit.index >= LogCapacity THEN audit.index ELSE 0) + i) % LogCapacity]

(* audit_log_verify_chain(), with the key the entries were written with. *)
VerifyChain ==
  \A i \in 0 .. Count - 1 :
    Entry(i).hmac = Append(IF i = 0 THEN << >> ELSE Entry(i - 1).hmac, Entry(i).event)

-----------------------------------------------------------------------------
(* Whatever wraps, restarts and failing saves: audit_log_get_entries()     *)
(* returns the newest events recorded, in order and without a gap.  After  *)
(* a restart those are the events up to the last save() that succeeded:    *)
(* audit_log.c:36 drops its result, so the ones after it are gone and the  *)
(* next event follows an older one.  It ends when the 8-bit write index    *)
(* wraps: audit_log_get_count() then starts again at 0.                    *)
LogHoldsNewest ==
  LET n == Len(audit.recorded) IN
  n < IndexMod =>
    /\ Count = IF n < LogCapacity THEN n ELSE LogCapacity
    /\ \A i \in 0 .. Count - 1 : Entry(i).event = audit.recorded[n - Count + 1 + i]

(* An unaltered log whose key was set before its first entry passes        *)
(* audit_log_verify_chain() as long as no entry was overwritten, restarts  *)
(* and lost events or not: the chain goes on from the newest entry loaded. *)
(* Once one was overwritten, the oldest is chained to an entry that is     *)
(* gone.                                                                   *)
VerifiesUntilFull ==
  audit.chained /\ Len(audit.recorded) <= LogCapacity => VerifyChain
=============================================================================
