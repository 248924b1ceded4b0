--------------------------- MODULE DuplicateGate ---------------------------
(***************************************************************************)
(* core/deduper.py: a gate remembers one payload, the last it recorded,    *)
(* and when.  Both are None before the first: the gate is then empty, and  *)
(* otherwise holds one record.                                             *)
(***************************************************************************)
EXTENDS Naturals

EmptyGate == {}

\* The window is closed: a scan exactly window seconds later is suppressed.
IsDuplicate(gate, payload, now, window) ==
  \E r \in gate : r.payload = payload /\ now - r.at <= window

RecordSuccess(payload, now) == {[payload |-> payload, at |-> now]}

=============================================================================
